---- MODULE Spec2Model ----
(***************************************************************************)
(* BackendWebSocketManager (bnk-sync): the server-side stateful WebSocket  *)
(* session manager.  The manager runs on one cooperative executor: every   *)
(* `await` of the source is a suspension point, and the code between two   *)
(* suspension points runs atomically.  Each call of an async entry point   *)
(* (handleMessage, handleOpen, handleClose, setState, sync) is a task with *)
(* a position (pc); one action models one synchronous segment of one call. *)
(***************************************************************************)
EXTENDS Integers, Sequences, FiniteSets, TLC

\* ------------------------------------------------------------------ bounds
\* Number of entry-point calls made in one behaviour (task slots).
MaxTasks == 2

\* Number of dispose() calls made in one behaviour.
MaxDisposals == 1

\* Milliseconds the clock advances in one behaviour.
MaxTime == 4

\* Number of adapter calls (init, load, save) made in one behaviour.
MaxAdapterCalls == 3

\* Number of sockets a client manager creates in one behaviour.
MaxSockets == 3

\* Number of sendMessage calls made on a client manager in one behaviour.
MaxSends == 1

\* ------------------------------------------------------------ value domains
Conns == {"ws1", "ws2"}
NoConn == "none"
Tasks == 1..MaxTasks

HookNames ==
    {"onConnect", "onDisconnect", "onStateChange", "onSync", "onPong",
     "onPing", "onPingTimeout", "onBackup"}

\* The state of the tests, { counter: n }, is modelled by n.
InitialState == 0

\* Date.now() when the manager is constructed: milliseconds since 1970, far
\* larger than any timeout.
Epoch == 1000

\* A timer handle that is undefined (never started, or cleared).
Off == 0

\* ------------------------------------------------------------- raw payloads
\* The payloads a client can send, named by their text (JSON quotes left out).
RawPong == "pong"
RawMalformed == "{bad"
RawNull == "null"
RawInc1 == "{type:increment,amount:1}"
RawInc2 == "{type:increment,amount:2}"
RawIncX == "{type:increment,amount:'x'}"
RawFail == "{type:fail}"
RawNoop == "{type:noop}"
RawMutate == "{type:mutate,amount:1}"
RawTwice == "{type:twice,amount:1}"
NoRaw == ""

\* A decoded JSON value: JSON null, or an object with its type field and its
\* amount field (numeric says whether amount is a number).
JsonNull == [kind |-> "null", type |-> "", amount |-> 0, numeric |-> FALSE]
JsonObj(ty, a, num) == [kind |-> "obj", type |-> ty, amount |-> a, numeric |-> num]
NoMsg == [kind |-> "none", type |-> "", amount |-> 0, numeric |-> FALSE]

\* JSON.parse(rawMessage): throws on malformed text (ok = FALSE).
JSONparse(raw) ==
    IF raw = RawNull THEN [ok |-> TRUE, val |-> JsonNull]
    ELSE IF raw = RawInc1 THEN [ok |-> TRUE, val |-> JsonObj("increment", 1, TRUE)]
    ELSE IF raw = RawInc2 THEN [ok |-> TRUE, val |-> JsonObj("increment", 2, TRUE)]
    ELSE IF raw = RawIncX THEN [ok |-> TRUE, val |-> JsonObj("increment", 0, FALSE)]
    ELSE IF raw = RawFail THEN [ok |-> TRUE, val |-> JsonObj("fail", 0, FALSE)]
    ELSE IF raw = RawNoop THEN [ok |-> TRUE, val |-> JsonObj("noop", 0, FALSE)]
    ELSE IF raw = RawMutate THEN [ok |-> TRUE, val |-> JsonObj("mutate", 1, TRUE)]
    ELSE IF raw = RawTwice THEN [ok |-> TRUE, val |-> JsonObj("twice", 1, TRUE)]
    ELSE [ok |-> FALSE, val |-> NoMsg]

\* config.validateMessage of the tests: messageSchema.parse(raw), a zod
\* discriminated union of increment/decrement objects with a numeric amount.
SchemaParse(val) ==
    IF val.kind = "obj" /\ val.type \in {"increment", "decrement"} /\ val.numeric
    THEN [ok |-> TRUE, val |-> val]
    ELSE [ok |-> FALSE, val |-> NoMsg]

\* ------------------------------------------------------------- middlewares
\* Middlewares are functions supplied by the application.  "double" is the
\* middleware of the test (doubles the amount of an increment); "addOne" adds 1
\* to the amount of an increment.  A middleware may also throw (reject): that
\* is an outcome chosen when it settles.  Reading msg.type of null throws
\* inside either middleware.
MiddlewareKinds == {"double", "addOne"}

\* The chains of middlewares the application registers, one use() at a time.
MiddlewareChains ==
    { <<"double">>, <<"addOne">>, <<"double", "addOne">>, <<"addOne", "double">> }

ApplyMiddleware(mw, msg) ==
    IF msg.kind # "obj" THEN [ok |-> FALSE, val |-> NoMsg]
    ELSE IF msg.type # "increment" THEN [ok |-> TRUE, val |-> msg]
    ELSE IF mw = "double"
         THEN [ok |-> TRUE, val |-> [msg EXCEPT !.amount = msg.amount * 2]]
    ELSE [ok |-> TRUE, val |-> [msg EXCEPT !.amount = msg.amount + 1]]

\* ---------------------------------------------------------------- handlers
\* config.messageHandlers: the incrementHandler of the tests (read the state
\* with getState, then setState(counter + amount)), a handler that throws,
\* and a second handler registered for the increment type (it throws, so a
\* run of it is told apart from a run of the first); the incrementHandler of
\* the README, which changes the object getState returned and passes that
\* object to setState ("mutate"); and a handler that calls setState twice,
\* adding the amount each time ("twice").
MessageHandlers ==
    << [type |-> "increment", body |-> "inc"],
       [type |-> "fail", body |-> "throw"],
       [type |-> "increment", body |-> "throw"],
       [type |-> "mutate", body |-> "mutate"],
       [type |-> "twice", body |-> "twice"] >>

FindLastHandler(handlers, msg) ==
    LET hits == {i \in 1..Len(handlers) : handlers[i].type = msg.type}
    IN IF hits = {} THEN 0
       ELSE CHOOSE i \in hits : \A j \in hits : i >= j

\* Line 261: messageHandlers.find((h) => h.type === parsed.type); 0 when
\* nothing matches.  (parsed.type throws when parsed is null: see Dispatch.)
FindHandler(handlers, msg) ==
    LET hits == {i \in 1..Len(handlers) : handlers[i].type = msg.type}
    IN IF hits = {} THEN 0
       ELSE CHOOSE i \in hits : \A j \in hits : i <= j

\* ------------------------------------------------------------------- state
VARIABLES
    cfg,            \* the constructor's config (fixed for a behaviour)
    connections,    \* this.connections: Set of sockets
    lastPongTimes,  \* this.lastPongTimes: Map socket -> ms
    state,          \* this.state
    version,        \* this.version
    middlewares,    \* this.middlewares
    initPc,         \* position of the constructor's void this.init()
    initReported,   \* reportError calls made by init()
    baseline,       \* how init() ended: outcome, version, setState calls before,
                    \* and which adapter call threw ("init", "load", "none")
    store,          \* the snapshot held by the adapter's storage
    saveCalls,      \* number of adapter.save invocations
    tasks,          \* the entry-point calls made so far, with their positions
    sent,           \* per socket: the frames passed to ws.send, in order
    closed,         \* per socket: number of ws.close() requests
    hookCalls,      \* per hook: number of invocations
    now,            \* Date.now()
    timers,         \* heartbeatTimer, syncInterval and the setTimeout checks
    persist,        \* a persistence adapter and the storage it points at
    client          \* a ClientWebSocketManager and the sockets it created

vars == << cfg, connections, lastPongTimes, state, version, middlewares, initPc,
           initReported, baseline, store, saveCalls, tasks, sent, closed,
           hookCalls, now, timers, persist, client >>

\* A Map: a function whose domain is the set of keys.
MapSet(m, k, v) == [x \in (DOMAIN m) \cup {k} |-> IF x = k THEN v ELSE m[x]]
MapDelete(m, k) == [x \in (DOMAIN m) \ {k} |-> m[x]]
EmptyMap == [x \in {} |-> 0]

Snapshot(s, v) == [state |-> s, version |-> v]

\* No snapshot: the value of a field that holds a (state, version) pair before
\* the pair exists.
NoSnapshot == [state |-> 0, version |-> -2]

\* One entry-point call.  kind: which entry point; pc: the await it is
\* suspended at ("done": its promise resolved; "rejected": its promise
\* rejected, the exception reached the caller).  frame, visited and bad are
\* the locals of a broadcastState loop: the serialized frame, the sockets the
\* loop has passed, and the sockets whose send throws.  The last fields
\* record what the call did: the messages each middleware received, the index
\* of the middleware that rejected (0: none), the message the handler
\* received, the call's reportError calls, its setState calls, its ws.send
\* calls, the time of the call, the (state, version) its setState assigned,
\* the arguments of its onSync call and how its adapter.save settled ("none":
\* not yet, "resolved", "rejected"); for a createBackup call, its
\* adapter.backup calls, how the backup settled and its onBackup calls; the
\* arguments of the call's last onStateChange call.
IdleTask ==
    [kind |-> "idle", pc |-> "idle", ws |-> NoConn, raw |-> NoRaw,
     msg |-> NoMsg, mwIdx |-> 0, handler |-> 0, cur |-> 0, oldState |-> 0,
     newState |-> 0, broadcast |-> FALSE, saveArg |-> Snapshot(0, 0),
     frame |-> [type |-> "", data |-> 0], visited |-> {}, bad |-> {},
     mwIn |-> <<>>, mwFailed |-> 0, handlerIn |-> <<>>, reported |-> 0,
     sets |-> 0, sends |-> 0, at |-> 0, post |-> NoSnapshot,
     onSyncArg |-> NoSnapshot, saveResult |-> "none", backups |-> 0,
     backupResult |-> "none", onBackups |-> 0,
     onStateChangeArg |-> [old |-> NoSnapshot.state, new |-> NoSnapshot.state]]

\* The slot the next call uses: calls fill the slots in order.
NextSlot(t) == tasks[t].kind = "idle" /\ \A u \in 1..(t - 1) : tasks[u].kind # "idle"

HookOn(h) == h \in cfg.hooks

\* The number of setState calls (handler-provided and public) made so far.
RECURSIVE SetsUpTo(_)
SetsUpTo(n) == IF n = 0 THEN 0 ELSE tasks[n].sets + SetsUpTo(n - 1)
SetStateCalls == SetsUpTo(MaxTasks)

\* --------------------------------------------------- persistence adapters
\* The three adapters of the repository.  An instance holds only its
\* configuration (file path or table name, validateState,
\* createInitialState), so a fresh instance pointed at the same storage is
\* the same configuration over the same storage.
AdapterKinds == {"FileWebSocketAdapter", "FileSyncAdapter", "SQLiteSyncAdapter"}

IsFile(kind) == kind \in {"FileWebSocketAdapter", "FileSyncAdapter"}

\* file-sync-adapter.ts line 57, file-websocket-adapter.ts line 51 and the
\* SQLite adapter's lines 41 and 52: the empty object {}.  A state
\* { counter: n } is modelled by n >= 0.
EmptyObject == -1

\* The numbers that occur in stored documents (counters and versions).
Numbers == -1..5

\* A value returned by load(): a { state, version } object, or what
\* JSON.parse made of a document without these fields (null, {}).
Data(s, v) == [kind |-> "snapshot", state |-> s, version |-> v]
NullData == [kind |-> "null", state |-> EmptyObject, version |-> 0]
EmptyData == [kind |-> "empty", state |-> EmptyObject, version |-> 0]

\* Texts are sequences of tokens.  JSON.stringify(state).
StateJson(s) ==
    IF s = EmptyObject THEN << "{", "}" >>
    ELSE << "{", "counter", ToString(s), "}" >>

SnapshotJsonNoVersion(s, v) ==
    << "{", "state" >> \o StateJson(s) \o << "version", ToString(0), "}" >>

\* JSON.stringify({ state, version }, null, 2) (white space left out).
SnapshotJson(s, v) ==
    << "{", "state" >> \o StateJson(s) \o << "version", ToString(v), "}" >>

NumberTokens == {ToString(n) : n \in Numbers}

ParseNumber(tok) == CHOOSE n \in Numbers : ToString(n) = tok

\* JSON.parse of a state text: throws (ok = FALSE) on anything else.
ParseState(text) ==
    IF text = << "{", "}" >> THEN [ok |-> TRUE, val |-> EmptyObject]
    ELSE IF /\ Len(text) = 4
            /\ text[1] = "{" /\ text[2] = "counter"
            /\ text[3] \in NumberTokens /\ text[4] = "}"
    THEN [ok |-> TRUE, val |-> ParseNumber(text[3])]
    ELSE [ok |-> FALSE, val |-> EmptyObject]

\* JSON.parse of a file: a { state, version } document, null, {}, or a throw.
ParseDocument(text) ==
    IF text = << "null" >> THEN [ok |-> TRUE, val |-> NullData]
    ELSE IF text = << "{", "}" >> THEN [ok |-> TRUE, val |-> EmptyData]
    ELSE IF /\ Len(text) >= 7
            /\ text[1] = "{" /\ text[2] = "state"
            /\ ParseState(SubSeq(text, 3, Len(text) - 3)).ok
            /\ text[Len(text) - 2] = "version"
            /\ text[Len(text) - 1] \in NumberTokens
            /\ text[Len(text)] = "}"
    THEN [ok |-> TRUE,
          val |-> Data(ParseState(SubSeq(text, 3, Len(text) - 3)).val,
                       ParseNumber(text[Len(text) - 1]))]
    ELSE [ok |-> FALSE, val |-> NullData]

\* contents.trim(): white space removed at both ends.
Trim(text) == SelectSeq(text, LAMBDA tok : tok # " ")

\* The validateState of the application: state.counter is a number.  It is
\* handed data.state: reading .state of null throws, and the state of {} is
\* undefined; both count as not valid (the throw is caught by the caller's
\* catch block, which takes the same branch).
ValidState(d) == d.kind = "snapshot" /\ d.state >= 0

\* The adapter and its storage.  kind, validateState and initial
\* (createInitialState()) are the configuration; exists and text are the
\* file; table, row, data_json and rowVersion are the SQLite table and its
\* row with id 1.  inited: an init() has resolved; saved: the arguments of
\* the last save() that resolved after that; result: how the last load()
\* settled; last: the last call; calls: the number of calls made so far.
AdapterOver(kind, validate, initial, exists, text, table, row, json, ver) ==
    [kind |-> kind, validateState |-> validate, initial |-> initial,
     exists |-> exists, text |-> text,
     table |-> table, row |-> row, data_json |-> json, rowVersion |-> ver,
     saved |-> Data(EmptyObject, -2), inited |-> FALSE,
     result |-> [ok |-> TRUE, val |-> NullData], last |-> "none", calls |-> 0]

\* No adapter under study (the manager's adapter is modelled by `store`).
Detached ==
    AdapterOver("none", FALSE, EmptyObject, FALSE, <<>>, FALSE, FALSE, <<>>, 0)

NeverSaved == Detached.saved

\* createInitialData() (file-sync-adapter.ts lines 72-75) and the literal
\* { state: {}, version: 0 } of the two other adapters.
InitialData(p) ==
    Data(IF p.kind = "FileSyncAdapter" THEN p.initial ELSE EmptyObject, 0)

\* writeData(data): Bun.write(filePath, JSON.stringify(data, null, 2)); when
\* the write fails the file is left as it was.
WriteData(p, d, writeOk) ==
    IF writeOk THEN [p EXCEPT !.exists = TRUE,
                              !.text = SnapshotJson(d.state, d.version)]
    ELSE p

\* init().  FileWebSocketAdapter (lines 42-64): a missing or empty file is
\* created with the initial data.  FileSyncAdapter (lines 81-119): also a
\* file of white space, one that does not parse, and one whose state the
\* validator refuses.  SQLiteSyncAdapter (lines 29-44): CREATE TABLE IF NOT
\* EXISTS, then INSERT the row (1, '{}', 0) ON CONFLICT DO NOTHING.
InitStorage(p, writeOk) ==
    LET doc == ParseDocument(p.text)
        fresh == WriteData(p, InitialData(p), writeOk)
    IN IF p.kind = "FileWebSocketAdapter"
       THEN IF ~p.exists \/ p.text = <<>> THEN fresh ELSE p
       ELSE IF p.kind = "FileSyncAdapter"
       THEN IF ~p.exists \/ Trim(p.text) = <<>> \/ ~doc.ok THEN fresh
            ELSE IF p.validateState /\ ~ValidState(doc.val) THEN fresh
            ELSE p
       ELSE IF p.row THEN [p EXCEPT !.table = TRUE]
            ELSE [p EXCEPT !.table = TRUE, !.row = TRUE,
                           !.data_json = StateJson(EmptyObject),
                           !.rowVersion = 0]

\* load().  FileWebSocketAdapter (lines 69-82): the parsed file, or the
\* initial data when the file is missing, empty or does not parse.
\* FileSyncAdapter (lines 125-155): the same, and the initial data also for
\* white space and for a state the validator refuses.  SQLiteSyncAdapter
\* (lines 46-55): the query throws when the table is missing; a missing row
\* or an empty data_json gives {}, version 0; JSON.parse of data_json throws
\* when it is not JSON; nothing is caught.
Load(p) ==
    LET doc == ParseDocument(p.text)
        js == ParseState(p.data_json)
    IN IF p.kind = "FileWebSocketAdapter"
       THEN IF ~p.exists \/ p.text = <<>> \/ ~doc.ok
            THEN [ok |-> TRUE, val |-> InitialData(p)]
            ELSE doc
       ELSE IF p.kind = "FileSyncAdapter"
       THEN IF ~p.exists \/ Trim(p.text) = <<>> \/ ~doc.ok
            THEN [ok |-> TRUE, val |-> InitialData(p)]
            ELSE IF p.validateState /\ ~ValidState(doc.val)
            THEN [ok |-> TRUE, val |-> InitialData(p)]
            ELSE doc
       ELSE IF ~p.table THEN [ok |-> FALSE, val |-> NullData]
            ELSE IF ~p.row THEN [ok |-> TRUE, val |-> InitialData(p)]
            ELSE IF p.data_json = <<>>
            THEN [ok |-> TRUE, val |-> Data(EmptyObject, p.rowVersion)]
            ELSE IF ~js.ok THEN [ok |-> FALSE, val |-> NullData]
            ELSE [ok |-> TRUE, val |-> Data(js.val, p.rowVersion)]

\* save(state, version).  The file adapters (file-websocket-adapter.ts lines
\* 87-90, file-sync-adapter.ts lines 160-164) write the document and reject
\* when the write fails.  SQLiteSyncAdapter (lines 57-63): UPDATE ... WHERE
\* id = 1, which throws without the table and changes nothing without the
\* row.  ok: whether the call resolved.
Save(p, s, v, writeOk) ==
    IF IsFile(p.kind)
    THEN [ok |-> writeOk, p |-> WriteData(p, Data(s, v), writeOk)]
    ELSE IF ~p.table THEN [ok |-> FALSE, p |-> p]
    ELSE IF ~p.row THEN [ok |-> TRUE, p |-> p]
    ELSE [ok |-> TRUE,
          p |-> [p EXCEPT !.data_json = StateJson(s), !.rowVersion = v]]

\* The fields of the server-side manager.
managerVars ==
    << cfg, connections, lastPongTimes, state, version, middlewares, initPc,
       initReported, baseline, store, saveCalls, tasks, sent, closed,
       hookCalls, now, timers >>

\* A call of init() that has settled.  It rejects only when a write it
\* needed failed.
AdapterInit(writeOk) ==
    /\ persist.kind # "none"
    /\ persist.calls < MaxAdapterCalls
    /\ persist' = [InitStorage(persist, writeOk) EXCEPT
                      !.inited = @ \/ writeOk \/ InitStorage(persist, TRUE) = persist,
                      !.last = "init", !.calls = @ + 1]
    /\ UNCHANGED << managerVars, client >>

\* A call of load() that has settled.
AdapterLoad ==
    /\ persist.kind # "none"
    /\ persist.calls < MaxAdapterCalls
    /\ persist' = [persist EXCEPT !.result = Load(persist), !.last = "load",
                                  !.calls = @ + 1]
    /\ UNCHANGED << managerVars, client >>

\* A call of save(s, v) that has settled.
AdapterSave(s, v, writeOk) ==
    /\ persist.kind # "none"
    /\ persist.calls < MaxAdapterCalls
    /\ LET r == Save(persist, s, v, writeOk)
       IN persist' = [r.p EXCEPT
                        !.saved = IF r.ok /\ persist.inited THEN Data(s, v) ELSE @,
                        !.last = "save", !.calls = @ + 1]
    /\ UNCHANGED << managerVars, client >>


\* ----------------------------------------------------------- client manager
\* ClientWebSocketManager (SyncClientManager has the same code): the fields
\* of the manager and the environment it acts on.  sockets: the readyState of
\* every WebSocket it created, in order, this.socket being the last;
\* scheduled: the setTimeout callbacks that are pending, by handle; timerSeq:
\* the handles given out so far; onReconnects: the calls of config.onReconnect;
\* stopped: disconnect(true) has been called; attemptNumbers: the arguments
\* of the onReconnect calls made since the last open event (or since the
\* construction); validateOutgoingMessage: the validator is configured;
\* sentData: the texts passed to send, with the socket they were passed to;
\* sends: the sendMessage calls made; lastMsg: the argument of the last one;
\* validations: the calls of the validator; droppedTimers and droppedSockets:
\* the reconnect timers that were pending at a disconnect call, and the
\* sockets that were current at one or were created by such a timer.
NoMax == -1

\* The messages the application sends: a message the schema accepts, one
\* with a key the schema does not know, and one the schema refuses.
NoOutgoing == [type |-> "", text |-> "", extra |-> FALSE]
Outgoing ==
    { [type |-> "test_outgoing", text |-> "Hello", extra |-> FALSE],
      [type |-> "test_outgoing", text |-> "Hello", extra |-> TRUE],
      [type |-> "unknown", text |-> "", extra |-> FALSE] }

\* config.validateOutgoingMessage, a schema's parse: it throws on a message
\* of another type and returns the message without the keys it does not know.
ValidateOutgoingMessage(msg) ==
    IF msg.type = "test_outgoing"
    THEN [ok |-> TRUE, val |-> [msg EXCEPT !.extra = FALSE]]
    ELSE [ok |-> FALSE, val |-> NoOutgoing]

\* JSON.stringify(validated): the text, token by token.
Stringify(msg) ==
    << "{", "type", msg.type, "text", msg.text >>
        \o (IF msg.extra THEN << "extra", "true" >> ELSE << >>) \o << "}" >>

ClientOver(autoReconnect, maxReconnectAttempts) ==
    [autoReconnect |-> autoReconnect,
     maxReconnectAttempts |-> maxReconnectAttempts,
     sockets |-> <<>>, reconnectAttempts |-> 0, reconnectTimeoutId |-> Off,
     scheduled |-> {}, timerSeq |-> 0, onReconnects |-> 0, stopped |-> FALSE,
     attemptNumbers |-> <<>>, validateOutgoingMessage |-> FALSE,
     sentData |-> <<>>, sends |-> 0, lastMsg |-> NoOutgoing, validations |-> 0,
     droppedTimers |-> {}, droppedSockets |-> {}]

\* No client manager exists.
NoClient == ClientOver(FALSE, NoMax)

\* Lines 99-111: connect() creates a socket, which starts CONNECTING.
ClientConnect(c) == [c EXCEPT !.sockets = Append(@, "CONNECTING")]

\* Lines 91-94: the constructor connects at once.
NewClient(autoReconnect, maxReconnectAttempts) ==
    ClientConnect(ClientOver(autoReconnect, maxReconnectAttempts))

\* The same, with config.validateOutgoingMessage set or not.
NewValidatingClient(autoReconnect, maxReconnectAttempts, validate) ==
    [NewClient(autoReconnect, maxReconnectAttempts) EXCEPT
        !.validateOutgoingMessage = validate]

\* Lines 249-254: clearReconnectTimer().
ClearReconnectTimer(c) ==
    IF c.reconnectTimeoutId # Off
    THEN [c EXCEPT !.scheduled = @ \ {c.reconnectTimeoutId},
                   !.reconnectTimeoutId = Off]
    ELSE c

\* Line 177: this.reconnectAttempts < (maxReconnectAttempts ?? Infinity).
BelowMaxAttempts(c) ==
    c.maxReconnectAttempts = NoMax \/ c.reconnectAttempts < c.maxReconnectAttempts

\* Lines 158-167: the open event of socket i.
ClientHandleOpen(i) ==
    /\ i \in DOMAIN client.sockets
    /\ client.sockets[i] = "CONNECTING"
    /\ client' = ClearReconnectTimer([client EXCEPT !.sockets[i] = "OPEN",
                                                     !.reconnectAttempts = 0,
                                                     !.attemptNumbers = <<>>])
    /\ UNCHANGED << managerVars, persist >>

\* Lines 172-199: the close event of socket i (the connection failed, the
\* server or the network closed it, or a close() completed).  With
\* autoReconnect and attempts left, the attempt is counted, onReconnect is
\* called and connect() is scheduled.
ClientHandleClose(i) ==
    /\ i \in DOMAIN client.sockets
    /\ client.sockets[i] # "CLOSED"
    /\ client' =
          IF client.autoReconnect /\ BelowMaxAttempts(client)
          THEN [client EXCEPT !.sockets[i] = "CLOSED",
                              !.reconnectAttempts = @ + 1,
                              !.onReconnects = @ + 1,
                              !.attemptNumbers =
                                  Append(@, client.reconnectAttempts + 1),
                              !.timerSeq = @ + 1,
                              !.reconnectTimeoutId = client.timerSeq + 1,
                              !.scheduled = @ \cup {client.timerSeq + 1}]
          ELSE [client EXCEPT !.sockets[i] = "CLOSED"]
    /\ UNCHANGED << managerVars, persist >>

\* Lines 117-129: disconnect(stopReconnectAttempts).  socket.close() starts
\* the closing handshake; the close event follows later.
Disconnect(stopReconnectAttempts) ==
    /\ client.sockets # <<>>
    /\ LET socket == Len(client.sockets)
           called == [client EXCEPT !.droppedTimers = @ \cup client.scheduled,
                                    !.droppedSockets = @ \cup {socket}]
           c == IF stopReconnectAttempts
                THEN [ClearReconnectTimer(called) EXCEPT !.reconnectAttempts = 0,
                                                         !.stopped = TRUE]
                ELSE called
       IN client' = IF c.sockets[socket] = "OPEN"
                    THEN [c EXCEPT !.sockets[socket] = "CLOSING"]
                    ELSE c
    /\ UNCHANGED << managerVars, persist >>

SocketOpenOrConnecting(c) == c.sockets[Len(c.sockets)] \in {"OPEN", "CONNECTING"}

\* Line 136: this.socket && this.socket.readyState === WebSocket.OPEN.
SocketOpen(c) == c.sockets # <<>> /\ c.sockets[Len(c.sockets)] = "OPEN"

\* Lines 135-153: sendMessage(msg).  Not open: return.  Otherwise validate
\* when configured, stringify and send; whatever is thrown is caught and
\* logged.  (send on an OPEN socket does not throw.)
SendMessage(msg) ==
    /\ client.sockets # <<>>
    /\ client.sends < MaxSends
    /\ LET c == [client EXCEPT !.sends = @ + 1, !.lastMsg = msg]
           validated == IF client.validateOutgoingMessage
                        THEN ValidateOutgoingMessage(msg)
                        ELSE [ok |-> TRUE, val |-> msg]
           v == [c EXCEPT !.validations =
                            IF client.validateOutgoingMessage THEN @ + 1 ELSE @]
       IN client' =
             IF ~SocketOpen(client) THEN c
             ELSE IF ~validated.ok THEN v
             ELSE [v EXCEPT !.sentData =
                              Append(@, [socket |-> Len(client.sockets),
                                         data |-> Stringify(validated.val)])]
    /\ UNCHANGED << managerVars, persist >>

\* Lines 182-189: a scheduled reconnect callback runs: this.connect().
ReconnectTimer(id) ==
    /\ id \in client.scheduled
    /\ Len(client.sockets) < MaxSockets
    /\ client' = ClientConnect([client EXCEPT
                                   !.scheduled = @ \ {id},
                                   !.droppedSockets =
                                       IF id \in client.droppedTimers
                                       THEN @ \cup {Len(client.sockets) + 1}
                                       ELSE @])
    /\ UNCHANGED << managerVars, persist >>

\* ------------------------------------------------------------------ timers
\* Lines 72-80, 119-125 and 381-383: the constructor starts the heartbeat
\* interval when heartbeatIntervalMs > 0 and the sync interval when
\* syncIntervalMs > 0.  A running interval is held as the time of its next
\* tick.  pings holds the sendPing calls made so far, each with the socket,
\* the time of the call, the time its timeout check is due and its position:
\* "onPing" (awaiting the hook), "timeout" (setTimeout pending),
\* "onPingTimeout" (the check found the socket late and awaits the hook),
\* "closed" (the check requested close), "passed" (the check found the socket
\* alive), "sent" (no timeout configured), "failed" (ws.send threw).
\* reported counts the reportError calls of sendPing, disposed the calls of
\* dispose().
StartTimers(config, t) ==
    [heartbeat |-> IF config.heartbeatIntervalMs > 0
                   THEN t + config.heartbeatIntervalMs ELSE Off,
     syncInterval |-> IF config.syncIntervalMs > 0
                      THEN t + config.syncIntervalMs ELSE Off,
     pings |-> {},
     reported |-> 0,
     disposed |-> 0]

\* ------------------------------------------------------------- constructor
\* Line 51: this.version = config.enableVersioning ? 0 : -1.
ConstructorVersion(enableVersioning) == IF enableVersioning THEN 0 ELSE -1

\* Lines 45-81.  The constructor calls init(), which runs up to its first
\* await: without an adapter it returns at once, with one it has called
\* adapter.init() and waits for it.  `persisted` is what the adapter's storage
\* holds from an earlier run.
Constructor(config, persisted) ==
    /\ cfg = config
    /\ persist = Detached
    /\ client = NoClient
    /\ now = Epoch
    /\ timers = StartTimers(config, Epoch)
    /\ connections = {}
    /\ lastPongTimes = EmptyMap
    /\ version = ConstructorVersion(config.enableVersioning)
    /\ state = config.initialState
    /\ middlewares = <<>>
    /\ initPc = IF config.adapter THEN "adapterInit" ELSE "done"
    /\ initReported = 0
    /\ baseline = [version |-> version, sets |-> 0, outcome |-> "none",
                   threw |-> "none"]
    /\ store = persisted
    /\ saveCalls = 0
    /\ tasks = [t \in Tasks |-> IdleTask]
    /\ sent = [c \in Conns |-> <<>>]
    /\ closed = [c \in Conns |-> 0]
    /\ hookCalls = [h \in HookNames |-> 0]

\* Lines 107-109: use(middleware).
Use(mw) ==
    /\ Append(middlewares, mw) \in MiddlewareChains
    /\ middlewares' = Append(middlewares, mw)
    /\ UNCHANGED << cfg, persist, client, timers, connections, lastPongTimes, state, version, initPc,
                    initReported, baseline, store, saveCalls, tasks, sent, closed,
                    hookCalls, now >>

\* ------------------------------------------------------------ init (startup)
\* Lines 354-356 and 367-369: if (this.version >= 0) this.version = 0.
FallbackVersion(v) == IF v >= 0 THEN 0 ELSE v

LoadedVersionIgnored(v, data) == v

\* Lines 361-363: the loaded version is taken only with enableVersioning.
LoadedVersion(v, data) == IF cfg.enableVersioning THEN data.version ELSE v

\* Lines 342-343 and 364-365: adapter.init() settles.  Resolved: init() calls
\* adapter.load() and waits.  Rejected: the catch block calls reportError and
\* waits for it.
AdapterInitReturn(ok) ==
    /\ initPc = "adapterInit"
    /\ initPc' = IF ok THEN "loading" ELSE "reporting"
    /\ initReported' = IF ok THEN initReported ELSE initReported + 1
    /\ baseline' = IF ok THEN baseline ELSE [baseline EXCEPT !.threw = "init"]
    /\ UNCHANGED << cfg, persist, client, timers, connections, lastPongTimes, state, version,
                    middlewares, store, saveCalls, tasks, sent, closed,
                    hookCalls, now >>

\* Lines 343-363: adapter.load() settles: with the stored snapshot, with data
\* that lacks state or version, or rejected.
LoadReturn(outcome) ==
    /\ initPc = "loading"
    /\ \/ /\ outcome = "data"
          /\ state' = store.state
          /\ version' = LoadedVersion(version, store)
          /\ initPc' = "done"
          /\ baseline' = [version |-> version', sets |-> SetStateCalls,
                          outcome |-> "data", threw |-> "none"]
          /\ UNCHANGED initReported
       \/ /\ outcome = "invalid"
          /\ state' = cfg.defaultState
          /\ version' = FallbackVersion(version)
          /\ initPc' = "done"
          /\ baseline' = [version |-> version', sets |-> SetStateCalls,
                          outcome |-> "invalid", threw |-> "none"]
          /\ UNCHANGED initReported
       \/ /\ outcome = "throw"
          /\ initPc' = "reporting"
          /\ initReported' = initReported + 1
          /\ baseline' = [baseline EXCEPT !.threw = "load"]
          /\ UNCHANGED << state, version >>
    /\ UNCHANGED << cfg, persist, client, timers, connections, lastPongTimes, middlewares, store,
                    saveCalls, tasks, sent, closed, hookCalls, now >>

\* Lines 365-369: reportError has returned; the catch block falls back.
InitFallback ==
    /\ initPc = "reporting"
    /\ state' = cfg.defaultState
    /\ version' = FallbackVersion(version)
    /\ initPc' = "done"
    /\ baseline' = [version |-> version', sets |-> SetStateCalls,
                    outcome |-> "failed", threw |-> baseline.threw]
    /\ UNCHANGED << cfg, persist, client, timers, connections, lastPongTimes, middlewares, initReported,
                    store, saveCalls, tasks, sent, closed, hookCalls, now >>

\* --------------------------------------------------------------------- sync
SyncCallStaleVersion(tk, s, v) ==
    IF cfg.adapter
    THEN [tk EXCEPT !.pc = "saving", !.saveArg = Snapshot(s, version)]
    ELSE [tk EXCEPT !.pc = "syncRet"]

\* Lines 388-392: the synchronous part of sync() as called by task record tk:
\* without an adapter it returns; with one it calls adapter.save(this.state,
\* this.version), the arguments being read at the call, and waits.
SyncCall(tk, s, v) ==
    IF cfg.adapter
    THEN [tk EXCEPT !.pc = "saving", !.saveArg = Snapshot(s, v)]
    ELSE [tk EXCEPT !.pc = "syncRet"]

SaveCallsAfterSync == IF cfg.adapter THEN saveCalls + 1 ELSE saveCalls

BumpVersionPositive(v) == IF v > 0 THEN v + 1 ELSE v

\* Lines 275-277 and 438-440: if (this.version >= 0) this.version++.
BumpVersion(v) == IF v >= 0 THEN v + 1 ELSE v

\* Lines 280-284 and 445-448: onStateChange is called when the hook is
\* configured and JSON.stringify(oldState) !== JSON.stringify(updated).
FiresStateChange(oldState, updated) ==
    HookOn("onStateChange") /\ oldState # updated

\* Lines 274-293 and 435-457: the body of a setState (the closure handed to a
\* handler, or the public one) up to its first await, run by task t whose
\* record at the call is tk.
SetStateBody(t, tk, oldState, updated) ==
    /\ version' = BumpVersion(version)
    /\ state' = updated
    /\ IF FiresStateChange(oldState, updated)
       THEN /\ hookCalls' = [hookCalls EXCEPT !["onStateChange"] = @ + 1]
            /\ tasks' = [tasks EXCEPT ![t] =
                            [tk EXCEPT !.pc = "stateChangeHook",
                                       !.post = Snapshot(updated, version'),
                                       !.onStateChangeArg =
                                           [old |-> oldState, new |-> updated]]]
            /\ UNCHANGED saveCalls
       ELSE /\ tasks' = [tasks EXCEPT ![t] =
                            SyncCall([tk EXCEPT !.post = Snapshot(updated, version')],
                                     updated, version')]
            /\ saveCalls' = SaveCallsAfterSync
            /\ UNCHANGED hookCalls

\* ------------------------------------------------------------ handleMessage
ParseSkippingValidator(hasValidator, raw) == JSONparse(raw)

\* Lines 239-248: parsed = validateMessage ? validateMessage(JSON.parse(raw))
\*                                         : JSON.parse(raw); a throw is caught.
ParseAndValidate(hasValidator, raw) ==
    LET p == JSONparse(raw)
    IN IF ~p.ok THEN p
       ELSE IF hasValidator THEN SchemaParse(p.val)
       ELSE p

\* A catch block that calls reportError and returns (lines 245-248, 254-257,
\* 296-298): the call waits for reportError, then ends.
Reported(tk) == [tk EXCEPT !.pc = "report", !.reported = @ + 1]

\* Lines 260-298, up to the first await: look the handler up and call it.
\* parsed.type is evaluated by the find callback outside every try block, so
\* for a null message it throws out of handleMessage.  No handler: return.
\* The throwing handler's rejection is caught and reported.  The increment
\* handler calls getState(), which reads this.state, and waits for it.
Dispatch(tk, msg) ==
    IF msg.kind = "null" /\ Len(MessageHandlers) > 0
    THEN [tk EXCEPT !.pc = "rejected", !.msg = msg]
    ELSE LET h == FindHandler(MessageHandlers, msg)
         IN IF h = 0 THEN [tk EXCEPT !.pc = "done", !.msg = msg]
            ELSE IF MessageHandlers[h].body = "throw"
            THEN Reported([tk EXCEPT !.msg = msg, !.handler = h,
                                     !.handlerIn = <<msg>>])
            ELSE [tk EXCEPT !.pc = "getState", !.msg = msg, !.handler = h,
                            !.handlerIn = <<msg>>, !.oldState = state,
                            !.cur = state]

\* Lines 250-258: one turn of the middleware loop: call middleware i with the
\* current message and wait for it; past the last one, dispatch.
CallMiddleware(tk, i, msg) ==
    IF i <= Len(middlewares)
    THEN [tk EXCEPT !.pc = "middleware", !.mwIdx = i, !.msg = msg,
                    !.mwIn = Append(@, msg)]
    ELSE Dispatch(tk, msg)

IsPongNever(raw) == FALSE

\* Line 226: rawMessage === "pong", tested before any parsing.
IsPong(raw) == raw = RawPong

\* Lines 219-265: handleMessage(ws, rawMessage) up to its first await.
HandleMessage(t, ws, raw) ==
    /\ NextSlot(t)
    /\ LET tk == [IdleTask EXCEPT !.kind = "message", !.ws = ws, !.raw = raw,
                                  !.at = now]
           p == ParseAndValidate(cfg.validateMessage, raw)
       IN IF IsPong(raw)
          THEN /\ lastPongTimes' = MapSet(lastPongTimes, ws, now)
               /\ IF HookOn("onPong")
                  THEN /\ hookCalls' = [hookCalls EXCEPT !["onPong"] = @ + 1]
                       /\ tasks' = [tasks EXCEPT ![t] = [tk EXCEPT !.pc = "pongHook"]]
                  ELSE /\ tasks' = [tasks EXCEPT ![t] = [tk EXCEPT !.pc = "done"]]
                       /\ UNCHANGED hookCalls
          ELSE /\ tasks' = [tasks EXCEPT ![t] =
                              IF p.ok THEN CallMiddleware(tk, 1, p.val)
                              ELSE Reported(tk)]
               /\ UNCHANGED << lastPongTimes, hookCalls >>
    /\ UNCHANGED << cfg, persist, client, timers, connections, state, version, middlewares, initPc,
                    initReported, baseline, store, saveCalls, sent, closed, now >>

\* Lines 229-236: the onPong hook has returned.
PongHookReturn(t) ==
    /\ tasks[t].pc = "pongHook"
    /\ tasks' = [tasks EXCEPT ![t].pc = "done"]
    /\ UNCHANGED << cfg, persist, client, timers, connections, lastPongTimes, state, version,
                    middlewares, initPc, initReported, baseline, store, saveCalls, sent,
                    closed, hookCalls, now >>

\* reportError has returned inside a catch block that then returns.
ReportReturn(t) ==
    /\ tasks[t].pc = "report"
    /\ tasks' = [tasks EXCEPT ![t].pc = "done"]
    /\ UNCHANGED << cfg, persist, client, timers, connections, lastPongTimes, state, version,
                    middlewares, initPc, initReported, baseline, store, saveCalls, sent,
                    closed, hookCalls, now >>

\* Line 251: for (const mw of this.middlewares): the middleware of turn i.
MiddlewareAtReversed(i) == middlewares[Len(middlewares) + 1 - i]

MiddlewareAt(i) == middlewares[i]

\* Lines 251-265: the awaited middleware settles.  Rejected (it threw, or
\* the application's function chose to reject: returns = FALSE): report and
\* return.  Resolved: its result is the message of the next turn.
MiddlewareReturn(t, returns) ==
    /\ tasks[t].pc = "middleware"
    /\ LET tk == tasks[t]
           r == ApplyMiddleware(MiddlewareAt(tk.mwIdx), tk.msg)
       IN tasks' = [tasks EXCEPT ![t] =
                      IF r.ok /\ returns
                      THEN CallMiddleware(tk, tk.mwIdx + 1, r.val)
                      ELSE Reported([tk EXCEPT !.mwFailed = tk.mwIdx])]
    /\ UNCHANGED << cfg, persist, client, timers, connections, lastPongTimes, state, version,
                    middlewares, initPc, initReported, baseline, store, saveCalls, sent,
                    closed, hookCalls, now >>

\* The increment handler of the tests after `await getState()`:
\* setState({ counter: current.counter + message.amount }).
HandlerUpdate(cur, msg) == cur + msg.amount

\* The handler of task record tk changes the object it got from getState.
InPlace(tk) == MessageHandlers[tk.handler].body = "mutate"

\* Lines 268 and 271-273: oldState and the value getState() resolved with are
\* the same object when the handler calls getState() first, both being
\* this.state read in the segment that called the handler.  `state.counter +=
\* amount` changes that object, so oldState shows the new content as well.
MutateState(tk) ==
    [tk EXCEPT !.cur = HandlerUpdate(tk.cur, tk.msg),
               !.oldState = HandlerUpdate(tk.cur, tk.msg)]

\* Lines 274-293: the handler resumes with the value getState() returned and
\* calls the setState closure, which runs up to its first await.  The
\* handlers that build a new object pass { counter: current.counter + amount };
\* the README's handler passes the object it changed.
HandlerSetState(t) ==
    /\ tasks[t].pc = "getState"
    /\ LET tk == [tasks[t] EXCEPT !.sets = @ + 1]
       IN IF InPlace(tk)
          THEN SetStateBody(t, MutateState(tk), MutateState(tk).oldState,
                            MutateState(tk).cur)
          ELSE SetStateBody(t, tk, tk.oldState, HandlerUpdate(tk.cur, tk.msg))
    /\ UNCHANGED << cfg, persist, client, timers, connections, lastPongTimes, middlewares, initPc,
                    initReported, baseline, store, sent, closed, now >>

\* Lines 286-293 and 450-457: onStateChange has returned; sync() is called.
StateChangeHookReturn(t) ==
    /\ tasks[t].pc = "stateChangeHook"
    /\ tasks' = [tasks EXCEPT ![t] = SyncCall(tasks[t], state, version)]
    /\ saveCalls' = SaveCallsAfterSync
    /\ UNCHANGED << cfg, persist, client, timers, connections, lastPongTimes, state, version,
                    middlewares, initPc, initReported, baseline, store, sent, closed,
                    hookCalls, now >>

SaveRejectedUncaught(tk) == [tk EXCEPT !.pc = "rejected", !.saveResult = "rejected"]

\* Lines 396-398: the rejection of adapter.save is caught inside sync():
\* reportError is called and sync() returns to its caller.
SaveRejected(tk) ==
    [tk EXCEPT !.pc = "syncRet", !.reported = @ + 1, !.saveResult = "rejected"]

\* Lines 392-398: adapter.save settles.  Resolved: the storage holds the
\* snapshot passed at the call, and onSync is called when configured, with
\* this.state and this.version read at that moment (line 394).
\* Rejected: the catch block reports the error; sync() still returns normally.
SaveReturn(t, ok) ==
    /\ tasks[t].pc = "saving"
    /\ IF ok
       THEN /\ store' = tasks[t].saveArg
            /\ IF HookOn("onSync")
               THEN /\ hookCalls' = [hookCalls EXCEPT !["onSync"] = @ + 1]
                    /\ tasks' = [tasks EXCEPT ![t] =
                                    [tasks[t] EXCEPT
                                        !.pc = "onSync",
                                        !.saveResult = "resolved",
                                        !.onSyncArg = Snapshot(state, version)]]
               ELSE /\ tasks' = [tasks EXCEPT ![t] =
                                    [tasks[t] EXCEPT !.pc = "syncRet",
                                                     !.saveResult = "resolved"]]
                    /\ UNCHANGED hookCalls
       ELSE /\ tasks' = [tasks EXCEPT ![t] = SaveRejected(tasks[t])]
            /\ UNCHANGED << store, hookCalls >>
    /\ UNCHANGED << cfg, persist, client, timers, connections, lastPongTimes, state, version,
                    middlewares, initPc, initReported, baseline, saveCalls, sent, closed,
                    now >>

\* A frame passed to ws.send: JSON.stringify({ type, data: this.state }).
Frame(ty, data) == [type |-> ty, data |-> data]

\* Line 318: conn.send(serialized) on each socket of conns.
BroadcastSends(frames, conns, frame) ==
    [c \in Conns |-> IF c \in conns THEN Append(frames[c], frame)
                     ELSE frames[c]]

\* Lines 305-310: the frame is built and serialized once, before the loop.
StartBroadcast(tk, bad) ==
    [tk EXCEPT !.frame = Frame("state_update", state), !.visited = {},
               !.bad = bad]

ResumeNone(conns, visited) == {}

\* Line 316: for (const conn of this.connections) resumes after an await: a
\* Set is iterated live, so the loop goes on with the sockets registered at
\* that moment that it has not passed yet.
ResumeTargets(conns, visited) == conns \ visited

\* Lines 316-324: the loop of broadcastState, run by task t (record tk) over
\* the sockets `rest`, up to its next await.  No send throws: every socket of
\* rest is sent the frame and broadcastState returns.  Otherwise the loop
\* sends to some of the sockets whose send returns (those the Set yields
\* first: the model does not keep the insertion order, so any of them), then
\* a send throws: the catch block calls reportError and waits for it.
BroadcastLoop(t, tk, rest) ==
    LET failing == rest \cap tk.bad
    IN IF failing = {}
       THEN /\ sent' = BroadcastSends(sent, rest, tk.frame)
            /\ tasks' = [tasks EXCEPT ![t] =
                            [tk EXCEPT !.pc = "done",
                                       !.visited = @ \cup rest,
                                       !.sends = @ + Cardinality(rest)]]
       ELSE \E f \in failing, before \in SUBSET (rest \ tk.bad) :
               /\ sent' = BroadcastSends(sent, before \cup {f}, tk.frame)
               /\ tasks' = [tasks EXCEPT ![t] =
                               [tk EXCEPT !.pc = "broadcastReport",
                                          !.visited = @ \cup before \cup {f},
                                          !.sends = @ + Cardinality(before) + 1,
                                          !.reported = @ + 1]]

\* Lines 304-333: broadcastState() up to its first await.  bad: the sockets
\* whose send throws.
BroadcastState(t, bad) ==
    /\ NextSlot(t)
    /\ BroadcastLoop(t, StartBroadcast([IdleTask EXCEPT !.kind = "broadcast"], bad),
                     connections)
    /\ UNCHANGED << cfg, persist, client, timers, connections, lastPongTimes, state, version,
                    middlewares, initPc, initReported, baseline, store, saveCalls,
                    closed, hookCalls, now >>

\* Lines 320-323: reportError has returned; the loop goes on.
BroadcastReportReturn(t) ==
    /\ tasks[t].pc = "broadcastReport"
    /\ BroadcastLoop(t, tasks[t], ResumeTargets(connections, tasks[t].visited))
    /\ UNCHANGED << cfg, persist, client, timers, connections, lastPongTimes, state, version,
                    middlewares, initPc, initReported, baseline, store, saveCalls,
                    closed, hookCalls, now >>

\* The handler that calls setState twice has had its first call return.
CallsAgain(tk) ==
    /\ tk.kind = "message"
    /\ tk.handler # 0
    /\ MessageHandlers[tk.handler].body = "twice"
    /\ tk.sets = 1

\* The first setState of that handler has returned (its sync() is over): the
\* handler calls the closure again, with { counter: current.counter + 2 *
\* amount }; the closure still compares with the oldState of line 268.
HandlerSetStateAgain(t) ==
    /\ tasks[t].pc \in {"syncRet", "onSync"}
    /\ CallsAgain(tasks[t])
    /\ LET tk == [tasks[t] EXCEPT !.sets = @ + 1]
       IN SetStateBody(t, tk, tk.oldState,
                       HandlerUpdate(HandlerUpdate(tk.cur, tk.msg), tk.msg))
    /\ UNCHANGED << cfg, persist, client, timers, connections, lastPongTimes, middlewares, initPc,
                    initReported, baseline, store, sent, closed, now >>

\* sync() returns to its caller (after onSync when configured).  A handler's
\* setState and a sync() call end there; the public setState goes on to
\* lines 459-462: if (broadcast) await this.broadcastState(), which runs up
\* to its first await (bad: the sockets whose send throws).
SyncReturn(t, bad) ==
    /\ tasks[t].pc \in {"syncRet", "onSync"}
    /\ ~CallsAgain(tasks[t])
    /\ IF tasks[t].kind = "setState" /\ tasks[t].broadcast
       THEN BroadcastLoop(t, StartBroadcast(tasks[t], bad), connections)
       ELSE /\ tasks' = [tasks EXCEPT ![t].pc = "done"]
            /\ UNCHANGED sent
    /\ UNCHANGED << cfg, persist, client, timers, connections, lastPongTimes, state, version,
                    middlewares, initPc, initReported, baseline, store, saveCalls,
                    closed, hookCalls, now >>

\* ------------------------------------------------------------ createBackup
SupportsBackupAny(config) == config.adapter

\* Line 405: this.adapter?.backup is defined.
SupportsBackup(config) == config.adapter /\ config.backup

\* Lines 404-408: createBackup() up to its first await: without an adapter or
\* without adapter.backup it returns; otherwise it calls adapter.backup().
CreateBackup(t) ==
    /\ NextSlot(t)
    /\ tasks' = [tasks EXCEPT ![t] =
                   IF SupportsBackup(cfg)
                   THEN [IdleTask EXCEPT !.kind = "backup", !.pc = "backingUp",
                                         !.backups = 1]
                   ELSE [IdleTask EXCEPT !.kind = "backup", !.pc = "done"]]
    /\ UNCHANGED << cfg, persist, client, timers, connections, lastPongTimes, state, version,
                    middlewares, initPc, initReported, baseline, store, saveCalls, sent,
                    closed, hookCalls, now >>

\* Lines 408-414: adapter.backup() settles.  Resolved: onBackup is called
\* when configured, with Date.now() and this.version.  Rejected: the catch
\* block reports the error and onBackup is not called.
BackupReturn(t, ok) ==
    /\ tasks[t].pc = "backingUp"
    /\ IF ok
       THEN IF HookOn("onBackup")
            THEN /\ hookCalls' = [hookCalls EXCEPT !["onBackup"] = @ + 1]
                 /\ tasks' = [tasks EXCEPT ![t] =
                                 [tasks[t] EXCEPT !.pc = "onBackup",
                                                  !.backupResult = "resolved",
                                                  !.onBackups = @ + 1]]
            ELSE /\ tasks' = [tasks EXCEPT ![t] =
                                 [tasks[t] EXCEPT !.pc = "done",
                                                  !.backupResult = "resolved"]]
                 /\ UNCHANGED hookCalls
       ELSE /\ tasks' = [tasks EXCEPT ![t] =
                            Reported([tasks[t] EXCEPT !.backupResult = "rejected"])]
            /\ UNCHANGED hookCalls
    /\ UNCHANGED << cfg, persist, client, timers, connections, lastPongTimes, state, version,
                    middlewares, initPc, initReported, baseline, store, saveCalls, sent,
                    closed, now >>

\* Lines 410-414: the onBackup hook settles; its rejection is caught and
\* reported.
OnBackupReturn(t, ok) ==
    /\ tasks[t].pc = "onBackup"
    /\ tasks' = [tasks EXCEPT ![t] =
                   IF ok THEN [tasks[t] EXCEPT !.pc = "done"] ELSE Reported(tasks[t])]
    /\ UNCHANGED << cfg, persist, client, timers, connections, lastPongTimes, state, version,
                    middlewares, initPc, initReported, baseline, store, saveCalls, sent,
                    closed, hookCalls, now >>

\* ------------------------------------------------------- public setState, sync
\* Lines 434-457: setState(newState, broadcast) up to its first await.
SetState(t, newState, broadcast) ==
    /\ NextSlot(t)
    /\ LET tk == [IdleTask EXCEPT !.kind = "setState", !.newState = newState,
                                  !.broadcast = broadcast, !.oldState = state,
                                  !.sets = 1]
       IN SetStateBody(t, tk, state, newState)
    /\ UNCHANGED << cfg, persist, client, timers, connections, lastPongTimes, middlewares, initPc,
                    initReported, baseline, store, sent, closed, now >>

\* Lines 388-392: a call of the public sync().
Sync(t) ==
    /\ NextSlot(t)
    /\ tasks' = [tasks EXCEPT ![t] =
                   SyncCall([IdleTask EXCEPT !.kind = "sync"], state, version)]
    /\ saveCalls' = SaveCallsAfterSync
    /\ UNCHANGED << cfg, persist, client, timers, connections, lastPongTimes, state, version,
                    middlewares, initPc, initReported, baseline, store, sent, closed,
                    hookCalls, now >>

\* ------------------------------------------------------ connection registry
\* Lines 185-194: send the initial_state frame to ws; a throwing send is
\* reported (the close follows once reportError has returned).
SendInitialState(tk, ok) ==
    IF ok THEN [tk EXCEPT !.pc = "done", !.sends = @ + 1]
    ELSE [tk EXCEPT !.pc = "reportSend", !.sends = @ + 1, !.reported = @ + 1]

InitialFramesToAll(frames, ws, data) ==
    [c \in Conns |-> IF c \in connections \cup {ws}
                     THEN Append(frames[c], Frame("initial_state", data))
                     ELSE frames[c]]

\* Lines 186-190: ws.send(JSON.stringify({ type: "initial_state", data })).
InitialFrames(frames, ws, data) ==
    [frames EXCEPT ![ws] = Append(@, Frame("initial_state", data))]

\* Lines 170-171: register the socket and seed its liveness record.
Register(conns, ws) == conns \cup {ws}

\* Lines 169-195: handleOpen(ws) up to its first await.  sendOk: whether
\* ws.send returns (TRUE) or throws.
HandleOpen(t, ws, sendOk) ==
    /\ NextSlot(t)
    /\ connections' = Register(connections, ws)
    /\ lastPongTimes' = MapSet(lastPongTimes, ws, now)
    /\ LET tk == [IdleTask EXCEPT !.kind = "open", !.ws = ws]
       IN IF HookOn("onConnect")
          THEN /\ hookCalls' = [hookCalls EXCEPT !["onConnect"] = @ + 1]
               /\ tasks' = [tasks EXCEPT ![t] = [tk EXCEPT !.pc = "onConnect"]]
               /\ UNCHANGED sent
          ELSE /\ tasks' = [tasks EXCEPT ![t] = SendInitialState(tk, sendOk)]
               /\ sent' = InitialFrames(sent, ws, state)
               /\ UNCHANGED hookCalls
    /\ UNCHANGED << cfg, persist, client, timers, state, version, middlewares, initPc, initReported, baseline,
                    store, saveCalls, closed, now >>

\* Lines 178-194: onConnect has returned; the initial state is sent.
OnConnectReturn(t, sendOk) ==
    /\ tasks[t].pc = "onConnect"
    /\ tasks' = [tasks EXCEPT ![t] = SendInitialState(tasks[t], sendOk)]
    /\ sent' = InitialFrames(sent, tasks[t].ws, state)
    /\ UNCHANGED << cfg, persist, client, timers, connections, lastPongTimes, state, version,
                    middlewares, initPc, initReported, baseline, store, saveCalls,
                    closed, hookCalls, now >>

\* Lines 192-193: reportError has returned; ws.close().
SendFailedClose(t) ==
    /\ tasks[t].pc = "reportSend"
    /\ tasks' = [tasks EXCEPT ![t].pc = "done"]
    /\ closed' = [closed EXCEPT ![tasks[t].ws] = @ + 1]
    /\ UNCHANGED << cfg, persist, client, timers, connections, lastPongTimes, state, version,
                    middlewares, initPc, initReported, baseline, store, saveCalls, sent,
                    hookCalls, now >>

\* Lines 200-214: handleClose(ws) up to its first await.
HandleClose(t, ws) ==
    /\ NextSlot(t)
    /\ connections' = connections \ {ws}
    /\ lastPongTimes' = MapDelete(lastPongTimes, ws)
    /\ LET tk == [IdleTask EXCEPT !.kind = "close", !.ws = ws]
       IN IF HookOn("onDisconnect")
          THEN /\ hookCalls' = [hookCalls EXCEPT !["onDisconnect"] = @ + 1]
               /\ tasks' = [tasks EXCEPT ![t] = [tk EXCEPT !.pc = "onDisconnect"]]
          ELSE /\ tasks' = [tasks EXCEPT ![t] = [tk EXCEPT !.pc = "done"]]
               /\ UNCHANGED hookCalls
    /\ UNCHANGED << cfg, persist, client, timers, state, version, middlewares, initPc, initReported, baseline,
                    store, saveCalls, sent, closed, now >>

\* Lines 207-213: onDisconnect has returned.
OnDisconnectReturn(t) ==
    /\ tasks[t].pc = "onDisconnect"
    /\ tasks' = [tasks EXCEPT ![t].pc = "done"]
    /\ UNCHANGED << cfg, persist, client, timers, connections, lastPongTimes, state, version,
                    middlewares, initPc, initReported, baseline, store, saveCalls, sent,
                    closed, hookCalls, now >>

CloseLiveAndRest(cl, conns) == [c \in Conns |-> cl[c] + 1]

\* Lines 470-476: ws.close() on every socket of this.connections (a throw of
\* close is ignored).
CloseLive(cl, conns) ==
    [c \in Conns |-> IF c \in conns THEN cl[c] + 1 ELSE cl[c]]

\* Lines 468-489: dispose() requests close on every registered socket, clears
\* the registry and clears the heartbeat and sync intervals.  The setTimeout
\* checks of sendPing are not kept anywhere and stay scheduled.
Dispose ==
    /\ timers.disposed < MaxDisposals
    /\ closed' = CloseLive(closed, connections)
    /\ connections' = {}
    /\ lastPongTimes' = EmptyMap
    /\ timers' = [timers EXCEPT !.heartbeat = Off, !.syncInterval = Off,
                                !.disposed = @ + 1]
    /\ UNCHANGED << cfg, persist, client, state, version, middlewares, initPc, initReported,
                    baseline, store, saveCalls, tasks, sent, hookCalls, now >>

\* ---------------------------------------------------------------- heartbeat
\* Time passes.
Tick ==
    /\ now < Epoch + MaxTime
    /\ now' = now + 1
    /\ UNCHANGED << cfg, persist, client, timers, connections, lastPongTimes, state, version,
                    middlewares, initPc, initReported, baseline, store,
                    saveCalls, tasks, sent, closed, hookCalls >>

\* The heartbeat interval and the setTimeout checks run on one timer queue:
\* a callback runs when its time has come, or later when the executor was
\* busy, and never before a callback that was due earlier.
PendingDues ==
    (IF timers.heartbeat # Off THEN {timers.heartbeat} ELSE {})
    \cup {p.due : p \in {q \in timers.pings : q.pc = "timeout"}}

RunsNext(due) == now >= due /\ \A d \in PendingDues : due <= d

\* ws.readyState === WebSocket.OPEN: no close has been requested on ws.
ReadyOpen(ws) == closed[ws] = 0

\* Line 133: JSON.stringify({ type: "ping" }).
PingFrame == [type |-> "ping"]

\* Lines 131-154: sendPing(ws) at time t, up to its first await.  A throwing
\* send is reported.  With onPing configured the call waits for the hook;
\* otherwise it arms its timeout check (when pingTimeoutMs > 0) and returns.
SendPing(ws, t, sendOk) ==
    [ws |-> ws, at |-> t,
     due |-> IF sendOk /\ ~HookOn("onPing") /\ cfg.pingTimeoutMs > 0
             THEN t + cfg.pingTimeoutMs ELSE Off,
     pc |-> IF ~sendOk THEN "failed"
            ELSE IF HookOn("onPing") THEN "onPing"
            ELSE IF cfg.pingTimeoutMs > 0 THEN "timeout"
            ELSE "sent"]

\* Lines 119-125: a tick of the heartbeat interval: sendPing for every registered socket that is open.
\* bad: the sockets whose send throws.
HeartbeatTick(bad) ==
    /\ timers.heartbeat # Off
    /\ RunsNext(timers.heartbeat)
    /\ LET targets == {c \in connections : ReadyOpen(c)}
           calls == {SendPing(c, now, c \notin bad) : c \in targets}
       IN /\ timers' = [timers EXCEPT
                          !.heartbeat = now + cfg.heartbeatIntervalMs,
                          !.pings = @ \cup calls,
                          !.reported = @ + Cardinality(targets \cap bad)]
          /\ sent' = [c \in Conns |-> IF c \in targets
                                      THEN Append(sent[c], PingFrame)
                                      ELSE sent[c]]
          /\ hookCalls' = [hookCalls EXCEPT !["onPing"] =
                             IF HookOn("onPing")
                             THEN @ + Cardinality(targets \ bad) ELSE @]
    /\ UNCHANGED << cfg, persist, client, connections, lastPongTimes, state, version,
                    middlewares, initPc, initReported, baseline, store,
                    saveCalls, tasks, closed, now >>

\* Lines 135-150: onPing has returned; the timeout check is armed.
OnPingReturn(p) ==
    /\ p \in timers.pings
    /\ p.pc = "onPing"
    /\ LET q == IF cfg.pingTimeoutMs > 0
                THEN [p EXCEPT !.pc = "timeout", !.due = now + cfg.pingTimeoutMs]
                ELSE [p EXCEPT !.pc = "sent"]
       IN timers' = [timers EXCEPT !.pings = (@ \ {p}) \cup {q}]
    /\ UNCHANGED << cfg, persist, client, connections, lastPongTimes, state, version,
                    middlewares, initPc, initReported, baseline, store,
                    saveCalls, tasks, sent, closed, hookCalls, now >>

\* Line 140: this.lastPongTimes.get(ws) || 0.
LastPong(ws) == IF ws \in DOMAIN lastPongTimes THEN lastPongTimes[ws] ELSE 0

ExpiredNever(ws, t) == FALSE

\* Line 142: now - lastPong > pingTimeoutMs.
Expired(ws, t) == t - LastPong(ws) > cfg.pingTimeoutMs

\* Lines 139-149: the setTimeout callback of one ping.  A socket found late has onPingTimeout called
\* (and awaited) when configured, else close is requested at once.
PingTimeout(p) ==
    /\ p \in timers.pings
    /\ p.pc = "timeout"
    /\ RunsNext(p.due)
    /\ LET late == Expired(p.ws, now)
           hook == late /\ HookOn("onPingTimeout")
           q == [p EXCEPT !.pc = IF hook THEN "onPingTimeout"
                                 ELSE IF late THEN "closed" ELSE "passed"]
       IN /\ timers' = [timers EXCEPT !.pings = (@ \ {p}) \cup {q}]
          /\ hookCalls' = [hookCalls EXCEPT !["onPingTimeout"] =
                             IF hook THEN @ + 1 ELSE @]
          /\ closed' = [closed EXCEPT ![p.ws] =
                          IF late /\ ~hook THEN @ + 1 ELSE @]
    /\ UNCHANGED << cfg, persist, client, connections, lastPongTimes, state, version,
                    middlewares, initPc, initReported, baseline, store,
                    saveCalls, tasks, sent, now >>

\* Lines 145-147: onPingTimeout has returned; ws.close().
OnPingTimeoutReturn(p) ==
    /\ p \in timers.pings
    /\ p.pc = "onPingTimeout"
    /\ timers' = [timers EXCEPT !.pings = (@ \ {p}) \cup {[p EXCEPT !.pc = "closed"]}]
    /\ closed' = [closed EXCEPT ![p.ws] = @ + 1]
    /\ UNCHANGED << cfg, persist, client, connections, lastPongTimes, state, version,
                    middlewares, initPc, initReported, baseline, store,
                    saveCalls, tasks, sent, hookCalls, now >>

NextSyncTickNever(t) == Off

\* Line 380: setInterval: after a tick that ran at time t the next one is due
\* one interval later.
NextSyncTick(t) == t + cfg.syncIntervalMs

\* Lines 381-383: a tick of the sync interval: void this.sync().
SyncTick(t) ==
    /\ timers.syncInterval # Off
    /\ now >= timers.syncInterval
    /\ NextSlot(t)
    /\ timers' = [timers EXCEPT !.syncInterval = NextSyncTick(now)]
    /\ tasks' = [tasks EXCEPT ![t] =
                   SyncCall([IdleTask EXCEPT !.kind = "syncTick"], state, version)]
    /\ saveCalls' = SaveCallsAfterSync
    /\ UNCHANGED << cfg, persist, client, connections, lastPongTimes, state, version,
                    middlewares, initPc, initReported, baseline, store, sent,
                    closed, hookCalls, now >>

\* The transport delivers the close event of a socket on which close was
\* requested: the application calls handleClose(ws).
CloseEvent(t, ws) ==
    /\ closed[ws] > 0
    /\ ws \in connections
    /\ HandleClose(t, ws)

\* ------------------------------------------------------------ specifications
\* The payloads clients send.  RawIncX (a non-numeric amount) is sent only to
\* a manager with a validator: without one the handler would do arithmetic on
\* a string, which lies outside the counter values modelled here.
RawPayloads ==
    {RawPong, RawMalformed, RawNull, RawInc1, RawInc2, RawFail, RawNoop}
    \cup (IF cfg.validateMessage THEN {RawIncX} ELSE {})

\* The default state of the configuration (distinct from the initial state).
DefaultState == 5

Config(versioning, adapter, validator, hooks) ==
    [enableVersioning |-> versioning, adapter |-> adapter, backup |-> FALSE,
     validateMessage |-> validator, hooks |-> hooks,
     initialState |-> InitialState, defaultState |-> DefaultState,
     heartbeatIntervalMs |-> 0, pingTimeoutMs |-> 0, syncIntervalMs |-> 0]

\* The configuration whose adapter has the optional backup method.
WithBackup(config) == [config EXCEPT !.backup = TRUE]

\* The configuration with its timers set: heartbeatIntervalMs, pingTimeoutMs
\* and syncIntervalMs (0: not configured).
Timed(config, heartbeatMs, timeoutMs, syncMs) ==
    [config EXCEPT !.heartbeatIntervalMs = heartbeatMs,
                   !.pingTimeoutMs = timeoutMs, !.syncIntervalMs = syncMs]

\* A manager constructed with one of `configs`, over a storage holding one of
\* `snapshots` (which matters only with an adapter).
InitOf(configs, snapshots) ==
    \E config \in configs :
        \E persisted \in snapshots :
            /\ (~config.adapter => persisted = Snapshot(0, 0))
            /\ Constructor(config, persisted)

\* The fields of a manager once init() has completed by loading the stored
\* snapshot and the sockets of conns have been opened (handleOpen has
\* returned for each: registered, onConnect called, initial_state sent).
Manager(config, persisted, conns) ==
    /\ cfg = config
    /\ now = Epoch
    /\ timers = StartTimers(config, Epoch)
    /\ connections = conns
    /\ lastPongTimes = [c \in conns |-> now]
    /\ version = IF config.adapter /\ config.enableVersioning
                 THEN persisted.version
                 ELSE ConstructorVersion(config.enableVersioning)
    /\ state = IF config.adapter THEN persisted.state ELSE config.initialState
    /\ middlewares = <<>>
    /\ initPc = "done"
    /\ initReported = 0
    /\ baseline = [version |-> version, sets |-> 0,
                   outcome |-> IF config.adapter THEN "data" ELSE "none",
                   threw |-> "none"]
    /\ store = persisted
    /\ saveCalls = 0
    /\ tasks = [t \in Tasks |-> IdleTask]
    /\ sent = [c \in Conns |-> IF c \in conns
                                THEN << Frame("initial_state", state) >>
                                ELSE <<>>]
    /\ closed = [c \in Conns |-> 0]
    /\ hookCalls = [h \in HookNames |->
                       IF h = "onConnect" /\ h \in config.hooks
                       THEN Cardinality(conns) ELSE 0]

Connected(config, persisted, conns) ==
    Manager(config, persisted, conns) /\ persist = Detached /\ client = NoClient

\* The state the tests start from (they wait for init before the first
\* call): started, no socket opened yet.
Started(config, persisted) == Connected(config, persisted, {})

\* The steps of init(), the constructor's background call.
StartupStep ==
    \/ \E ok \in BOOLEAN : AdapterInitReturn(ok)
    \/ \E outcome \in {"data", "invalid", "throw"} : LoadReturn(outcome)
    \/ InitFallback

\* Every step of the manager: any configuration, any stored snapshot, every
\* entry point called at any moment.
Configs ==
    {Config(v, a, val, h) : v \in BOOLEAN, a \in BOOLEAN, val \in BOOLEAN,
                            h \in {{}, HookNames}}

\* What the storage may hold from an earlier run: the snapshot of a fresh
\* store, one saved by a versioned manager, one saved by a manager without
\* versioning (version -1).
PersistedSnapshots == {Snapshot(0, 0), Snapshot(5, 2), Snapshot(5, -1)}

\* The states public setState is called with.
NewStates == {DefaultState, 7}

Init == InitOf(Configs, PersistedSnapshots)

Next ==
    \/ \E mw \in MiddlewareKinds : Use(mw)
    \/ StartupStep
    \/ Dispose
    \/ \E t \in Tasks :
          \/ \E ws \in Conns, raw \in RawPayloads : HandleMessage(t, ws, raw)
          \/ PongHookReturn(t)
          \/ ReportReturn(t)
          \/ \E returns \in BOOLEAN : MiddlewareReturn(t, returns)
          \/ HandlerSetState(t)
          \/ StateChangeHookReturn(t)
          \/ \E ok \in BOOLEAN : SaveReturn(t, ok)
          \/ \E bad \in SUBSET Conns : SyncReturn(t, bad)
          \/ \E bad \in SUBSET Conns : BroadcastState(t, bad)
          \/ BroadcastReportReturn(t)
          \/ \E s \in NewStates, b \in BOOLEAN : SetState(t, s, b)
          \/ Sync(t)
          \/ \E ws \in Conns, ok \in BOOLEAN : HandleOpen(t, ws, ok)
          \/ \E ok \in BOOLEAN : OnConnectReturn(t, ok)
          \/ SendFailedClose(t)
          \/ \E ws \in Conns : HandleClose(t, ws)
          \/ OnDisconnectReturn(t)

Spec == Init /\ [][Next]_vars

\* The configurations of the scenarios below: the bare manager, and the
\* manager of the tests (adapter, validator, every hook).
BareConfig == Config(TRUE, FALSE, FALSE, {})
TestConfig == Config(TRUE, TRUE, TRUE, HookNames)

\* Concurrent messages: two clients send increment messages to a started
\* manager, the calls of handleMessage overlapping in every possible way.
InitConcurrent ==
    \E config \in {BareConfig, TestConfig} : Started(config, Snapshot(0, 0))

NextConcurrent ==
    \E t \in Tasks :
        \/ \E ws \in Conns, raw \in {RawInc1, RawInc2} : HandleMessage(t, ws, raw)
        \/ HandlerSetState(t)
        \/ StateChangeHookReturn(t)
        \/ \E ok \in BOOLEAN : SaveReturn(t, ok)
        \/ SyncReturn(t, {})

SpecConcurrent == InitConcurrent /\ [][NextConcurrent]_vars

\* The message pipeline: the application registers its middlewares, then one
\* client connects and sends every kind of payload to a started manager.
InitPipeline ==
    \E config \in {BareConfig, TestConfig} : Started(config, Snapshot(0, 0))

NextPipeline ==
    \/ \E mw \in MiddlewareKinds : tasks[1].kind = "idle" /\ Use(mw)
    \/ \E t \in Tasks :
          \/ HandleOpen(t, "ws1", TRUE)
          \/ OnConnectReturn(t, TRUE)
          \/ \E raw \in RawPayloads : HandleMessage(t, "ws1", raw)
          \/ PongHookReturn(t)
          \/ ReportReturn(t)
          \/ \E returns \in BOOLEAN : MiddlewareReturn(t, returns)
          \/ HandlerSetState(t)
          \/ StateChangeHookReturn(t)
          \/ \E ok \in BOOLEAN : SaveReturn(t, ok)
          \/ SyncReturn(t, {})

SpecPipeline == InitPipeline /\ [][NextPipeline]_vars

\* Versioning: managers with and without versioning and adapter start over
\* each stored snapshot; while init() runs or after it, a client sends
\* increment messages and the application calls setState and sync.
VersionConfigs == {Config(v, a, FALSE, {}) : v \in BOOLEAN, a \in BOOLEAN}

InitVersion == InitOf(VersionConfigs, PersistedSnapshots)

NextVersion ==
    \/ StartupStep
    \/ \E t \in Tasks :
          \/ HandleMessage(t, "ws1", RawInc1)
          \/ HandlerSetState(t)
          \/ \E ok \in BOOLEAN : SaveReturn(t, ok)
          \/ SyncReturn(t, {})
          \/ \E s \in NewStates : SetState(t, s, FALSE)
          \/ Sync(t)

SpecVersion == InitVersion /\ [][NextVersion]_vars

\* The connection registry: two sockets open and close, in any order and any
\* number of times, while the application replaces the state and disposes.
ConnConfigs == {BareConfig, Config(TRUE, FALSE, FALSE, HookNames)}

InitConn == \E config \in ConnConfigs : Started(config, Snapshot(0, 0))

NextConn ==
    \/ Dispose
    \/ \E t \in Tasks :
          \/ \E ws \in Conns, ok \in BOOLEAN : HandleOpen(t, ws, ok)
          \/ \E ok \in BOOLEAN : OnConnectReturn(t, ok)
          \/ SendFailedClose(t)
          \/ \E ws \in Conns : HandleClose(t, ws)
          \/ OnDisconnectReturn(t)
          \/ \E s \in NewStates, b \in BOOLEAN : SetState(t, s, b)
          \/ StateChangeHookReturn(t)
          \/ SyncReturn(t, {})

SpecConn == InitConn /\ [][NextConn]_vars

\* Broadcast: with some sockets open, the application calls broadcastState
\* and setState (with and without broadcast), the calls overlapping in every
\* possible way, while sends throw on some sockets and sockets close.
InitBroadcast ==
    \E config \in {BareConfig, TestConfig}, conns \in SUBSET Conns :
        Connected(config, Snapshot(0, 0), conns)

NextBroadcast ==
    \E t \in Tasks :
        \/ \E bad \in SUBSET Conns : BroadcastState(t, bad)
        \/ BroadcastReportReturn(t)
        \/ \E s \in NewStates, b \in BOOLEAN : SetState(t, s, b)
        \/ StateChangeHookReturn(t)
        \/ \E ok \in BOOLEAN : SaveReturn(t, ok)
        \/ \E bad \in SUBSET Conns : SyncReturn(t, bad)
        \/ \E ws \in Conns : HandleClose(t, ws)
        \/ OnDisconnectReturn(t)

SpecBroadcast == InitBroadcast /\ [][NextBroadcast]_vars

\* Heartbeat: managers with a heartbeat interval shorter and longer than the
\* ping timeout, with and without the ping hooks, and one with an adapter and
\* a sync interval.  One socket is open; time passes, the timers run when
\* due or later, the client answers pong when it chooses to, the transport
\* delivers the close event of a closed socket, and the application disposes.
HeartbeatConfigs ==
    { Timed(BareConfig, 1, 2, 0),
      Timed(Config(TRUE, FALSE, FALSE, {"onPingTimeout"}), 1, 2, 0),
      Timed(Config(TRUE, FALSE, FALSE, {"onPing", "onPingTimeout"}), 2, 1, 0),
      Timed(Config(TRUE, TRUE, FALSE, {}), 0, 0, 2) }

InitHeartbeat ==
    \E config \in HeartbeatConfigs :
        Connected(config, Snapshot(0, 0), {"ws1"})

NextHeartbeat ==
    \/ Tick
    \/ \E bad \in SUBSET connections : HeartbeatTick(bad)
    \/ \E p \in timers.pings :
          \/ OnPingReturn(p)
          \/ PingTimeout(p)
          \/ OnPingTimeoutReturn(p)
    \/ Dispose
    \/ \E t \in Tasks :
          \/ \E ws \in connections : HandleMessage(t, ws, RawPong)
          \/ \E ws \in Conns : CloseEvent(t, ws)
          \/ SyncTick(t)
          \/ \E ok \in BOOLEAN : SaveReturn(t, ok)
          \/ SyncReturn(t, {})

SpecHeartbeat == InitHeartbeat /\ [][NextHeartbeat]_vars

\* Pong: the application registers a middleware on a started manager (bare,
\* or with adapter, validator and the onPong hook); time passes while a
\* client sends pong and increment payloads.
PongConfigs == {BareConfig, Config(TRUE, TRUE, TRUE, {"onPong"})}

InitPong == \E config \in PongConfigs : Started(config, Snapshot(0, 0))

NextPong ==
    \/ Tick
    \/ tasks[1].kind = "idle" /\ Use("double")
    \/ \E t \in Tasks :
          \/ \E raw \in {RawPong, RawInc1} : HandleMessage(t, "ws1", raw)
          \/ PongHookReturn(t)
          \/ MiddlewareReturn(t, TRUE)
          \/ HandlerSetState(t)
          \/ SaveReturn(t, TRUE)
          \/ SyncReturn(t, {})

SpecPong == InitPong /\ [][NextPong]_vars

\* The adapters: an adapter of each kind and configuration over a storage in
\* any condition (missing, empty, white space, not JSON, JSON without state
\* and version, a stored snapshot; for SQLite: no table, no row, a row whose
\* data_json is not JSON or empty, a stored row).  The caller awaits each
\* call before it makes the next.
FileContents ==
    { << FALSE, <<>> >>, << TRUE, <<>> >>, << TRUE, << " " >> >>,
      << TRUE, << "{", "bad" >> >>, << TRUE, << "null" >> >>,
      << TRUE, << "{", "}" >> >>, << TRUE, SnapshotJson(5, 2) >> }

TableContents ==
    { << FALSE, FALSE, <<>>, 0 >>, << TRUE, FALSE, <<>>, 0 >>,
      << TRUE, TRUE, << "{", "bad" >>, 1 >>, << TRUE, TRUE, <<>>, 1 >>,
      << TRUE, TRUE, StateJson(5), 2 >> }

AdapterStorages ==
    { AdapterOver("FileWebSocketAdapter", FALSE, EmptyObject, f[1], f[2],
                  FALSE, FALSE, <<>>, 0) : f \in FileContents }
    \cup { AdapterOver("FileSyncAdapter", val, ini, f[1], f[2],
                       FALSE, FALSE, <<>>, 0) :
             val \in BOOLEAN, ini \in {EmptyObject, 0}, f \in FileContents }
    \cup { AdapterOver("SQLiteSyncAdapter", FALSE, EmptyObject, FALSE, <<>>,
                       r[1], r[2], r[3], r[4]) : r \in TableContents }

SavedStates == {EmptyObject, 0, 5}
SavedVersions == {-1, 0, 2}

InitAdapter ==
    /\ Manager(BareConfig, Snapshot(0, 0), {})
    /\ persist \in AdapterStorages
    /\ client = NoClient

NextAdapter ==
    \/ \E writeOk \in BOOLEAN : AdapterInit(writeOk)
    \/ AdapterLoad
    \/ \E s \in SavedStates, v \in SavedVersions, writeOk \in BOOLEAN :
          AdapterSave(s, v, writeOk)

SpecAdapter == InitAdapter /\ [][NextAdapter]_vars

\* Backups: the application requests backups while it replaces the state.
\* The manager has no adapter, an adapter without the backup method, or an
\* adapter with it; the onBackup hook is configured or not; adapter.backup
\* and the hook resolve or reject.
BackupConfigs ==
    UNION { { Config(TRUE, FALSE, FALSE, h), Config(TRUE, TRUE, FALSE, h),
              WithBackup(Config(TRUE, TRUE, FALSE, h)) } : h \in {{}, {"onBackup"}} }

InitBackup == \E config \in BackupConfigs : Started(config, Snapshot(0, 0))

NextBackup ==
    \E t \in Tasks :
       \/ CreateBackup(t)
       \/ \E ok \in BOOLEAN : BackupReturn(t, ok)
       \/ \E ok \in BOOLEAN : OnBackupReturn(t, ok)
       \/ ReportReturn(t)
       \/ \E s \in NewStates : SetState(t, s, FALSE)
       \/ SaveReturn(t, TRUE)
       \/ SyncReturn(t, {})

SpecBackup == InitBackup /\ [][NextBackup]_vars

\* The client manager: it connects when constructed; its sockets open and
\* close, the application disconnects (with and without stopping the
\* reconnect attempts) and the scheduled reconnects run.
InitClient ==
    /\ Manager(BareConfig, Snapshot(0, 0), {})
    /\ persist = Detached
    /\ \E autoReconnect \in BOOLEAN, maxReconnectAttempts \in {NoMax, 1, 2} :
          \E validate \in BOOLEAN :
             client = NewValidatingClient(autoReconnect, maxReconnectAttempts,
                                          validate)

NextClient ==
    \/ \E i \in 1..MaxSockets : ClientHandleOpen(i)
    \/ \E i \in 1..MaxSockets : ClientHandleClose(i)
    \/ \E stopReconnectAttempts \in BOOLEAN : Disconnect(stopReconnectAttempts)
    \/ \E id \in 1..MaxSockets : ReconnectTimer(id)
    \/ \E msg \in Outgoing : SendMessage(msg)

SpecClient == InitClient /\ [][NextClient]_vars

\* State changes: clients send messages to the handlers that build a new
\* object, change the state object in place, or set the state twice, one
\* message being handled at a time, while the application replaces the state.
\* The onStateChange hook is configured; the manager has an adapter or not.
StateChangeConfigs == {Config(TRUE, a, FALSE, {"onStateChange"}) : a \in BOOLEAN}

\* The transport delivers a message once the call for the previous one has
\* returned (as the tests do, awaiting each handleMessage).
HandleMessageInTurn(t, ws, raw) ==
    /\ \A u \in Tasks :
          tasks[u].kind = "message" => tasks[u].pc \in {"done", "rejected"}
    /\ HandleMessage(t, ws, raw)

InitStateChange ==
    \E config \in StateChangeConfigs : Started(config, Snapshot(0, 0))

NextStateChange ==
    \E t \in Tasks :
       \/ \E raw \in {RawInc1, RawMutate, RawTwice} :
             HandleMessageInTurn(t, "ws1", raw)
       \/ HandlerSetState(t)
       \/ HandlerSetStateAgain(t)
       \/ StateChangeHookReturn(t)
       \/ SaveReturn(t, TRUE)
       \/ SyncReturn(t, {})
       \/ \E s \in NewStates : SetState(t, s, FALSE)

SpecStateChange == InitStateChange /\ [][NextStateChange]_vars

\* Opening: sockets open on a manager with a heartbeat, with and without
\* the onConnect hook, while the application broadcasts and replaces the
\* state and the heartbeat ticks.
OpenConfigs ==
    {Timed(Config(TRUE, FALSE, FALSE, h), 1, 0, 0) : h \in {{}, {"onConnect"}}}

InitOpen == \E config \in OpenConfigs : Started(config, Snapshot(0, 0))

NextOpen ==
    \/ Tick
    \/ HeartbeatTick({})
    \/ \E t \in Tasks :
          \/ \E ws \in Conns : HandleOpen(t, ws, TRUE)
          \/ OnConnectReturn(t, TRUE)
          \/ BroadcastState(t, {})
          \/ \E s \in NewStates : SetState(t, s, TRUE)
          \/ SyncReturn(t, {})

SpecOpen == InitOpen /\ [][NextOpen]_vars

\* Liveness records: sockets open and close, the application disposes, and
\* the transport delivers the pong of a client whose socket was opened (the
\* pong may have been sent before the client saw the close).
PongArrives(t, ws) ==
    /\ sent[ws] # <<>>
    /\ HandleMessage(t, ws, RawPong)

InitLiveness == \E config \in ConnConfigs : Started(config, Snapshot(0, 0))

NextLiveness ==
    \/ Dispose
    \/ Tick
    \/ \E t \in Tasks :
          \/ \E ws \in Conns : HandleOpen(t, ws, TRUE)
          \/ OnConnectReturn(t, TRUE)
          \/ \E ws \in Conns : HandleClose(t, ws)
          \/ OnDisconnectReturn(t)
          \/ \E ws \in Conns : PongArrives(t, ws)
          \/ PongHookReturn(t)

SpecLiveness == InitLiveness /\ [][NextLiveness]_vars

\* ------------------------------------------------------------------ claims
\* A handleMessage call is executing its handler from the moment the handler
\* is called until the handler's promise settles.
InHandler(t) ==
    /\ tasks[t].kind = "message"
    /\ tasks[t].pc \in {"getState", "stateChangeHook", "saving", "onSync", "syncRet"}

AllSettled == \A t \in Tasks : tasks[t].pc \in {"idle", "done", "rejected"}

\* C1: handlers are serialized: in no reachable state are the handlers of two
\* handleMessage calls in progress at once (the first runs to completion,
\* its setState and adapter save included, before the second begins).
C1_HandlersSerialized ==
    \A t, u \in Tasks : t # u => ~(InHandler(t) /\ InHandler(u))

\* The sum of the amounts of the messages whose handler called setState.
RECURSIVE AppliedUpTo(_)
AppliedUpTo(n) ==
    IF n = 0 THEN 0
    ELSE (IF tasks[n].kind = "message" /\ tasks[n].sets > 0
          THEN tasks[n].handlerIn[1].amount ELSE 0) + AppliedUpTo(n - 1)

\* C2: read-modify-write handlers handled concurrently lose no update: once
\* all calls have completed, counter = initial + the sum of the amounts.
C2_NoLostUpdate ==
    AllSettled => state = InitialState + AppliedUpTo(MaxTasks)

\* C3: with enableVersioning, on a manager whose startup ended with version
\* 0, the version equals the number of setState calls made since; without
\* enableVersioning the version is -1 in every reachable state.
C3_VersionCountsMutations ==
    /\ ~cfg.enableVersioning => version = -1
    /\ (cfg.enableVersioning /\ initPc = "done" /\ baseline.version = 0) =>
          version = SetStateCalls - baseline.sets

\* C3 witness: a versioned manager with an adapter loaded version 0, then two
\* increment messages were handled to completion: the version is 2.
C3_Witness ==
    /\ cfg.enableVersioning
    /\ cfg.adapter
    /\ initPc = "done"
    /\ baseline.version = 0 /\ baseline.sets = 0
    /\ \A t \in 1..2 : tasks[t].kind = "message" /\ tasks[t].pc = "done"
    /\ version = 2

\* C4: with enableVersioning, every setState call (handler-provided or
\* public) increases the version by exactly 1, whatever version the adapter
\* returned at startup.
C4_MutationAddsOne ==
    [][(cfg.enableVersioning /\ SetStateCalls' = SetStateCalls + 1) =>
          version' = version + 1]_vars

\* C5: with enableVersioning, the version never decreases.
C5_VersionMonotonic == [][cfg.enableVersioning => version' >= version]_vars

\* C6: handleOpen(ws) registers ws and seeds its liveness record with the
\* current time, calls onConnect once, and passes exactly one frame to
\* ws.send, { type: "initial_state", data: the current state }, and no frame
\* to any other socket.
C6_OpenSendsInitialState ==
    [][\A t \in Tasks :
          (tasks'[t] # tasks[t] /\ tasks'[t].kind = "open") =>
              LET ws == tasks'[t].ws
                  called == tasks[t].kind = "idle"
              IN /\ called =>
                       /\ ws \in connections'
                       /\ ws \in DOMAIN lastPongTimes'
                       /\ lastPongTimes'[ws] = now
                 /\ hookCalls'["onConnect"] =
                       IF called /\ HookOn("onConnect")
                       THEN hookCalls["onConnect"] + 1
                       ELSE hookCalls["onConnect"]
                 /\ \A c \in Conns \ {ws} : sent'[c] = sent[c]
                 /\ sent'[ws] =
                       IF tasks'[t].sends = tasks[t].sends + 1
                       THEN Append(sent[ws], Frame("initial_state", state))
                       ELSE sent[ws]
                 /\ tasks'[t].sends <= 1
                 /\ tasks'[t].pc = "done" => tasks'[t].sends = 1]_vars

\* C6 witness: both sockets were opened, onConnect ran once for each, and each
\* received exactly its own initial_state frame.
C6_Witness ==
    /\ HookOn("onConnect")
    /\ hookCalls["onConnect"] = 2
    /\ connections = Conns
    /\ \A t \in 1..2 : tasks[t].kind = "open" /\ tasks[t].pc = "done"
    /\ tasks[1].ws # tasks[2].ws
    /\ \A c \in Conns : sent[c] = << Frame("initial_state", state) >>

\* C7: handleClose on a socket that is not in the live set is a no-op: the
\* live set, the liveness records, the state and the version are unchanged
\* and no hook is invoked.
C7_CloseIdempotent ==
    [][\A t \in Tasks :
          (tasks[t].kind = "idle" /\ tasks'[t].kind = "close"
              /\ tasks'[t].ws \notin connections) =>
                 /\ connections' = connections
                 /\ lastPongTimes' = lastPongTimes
                 /\ state' = state
                 /\ version' = version
                 /\ hookCalls' = hookCalls]_vars

\* The payloads that fail JSON decoding, and those the validator of the
\* configuration rejects (everything but an increment or decrement object
\* with a numeric amount).
FailsDecoding(raw) == raw = RawMalformed
FailsValidator(raw) ==
    cfg.validateMessage /\ raw \in {RawNull, RawIncX, RawFail, RawNoop}
IsDropped(tk) ==
    tk.kind = "message" /\ (FailsDecoding(tk.raw) \/ FailsValidator(tk.raw))

\* C8: a message that fails JSON decoding or the validator is dropped: no
\* step of its handleMessage call changes state, version or the stored
\* snapshot, fires onStateChange, calls adapter.save, sends a frame, removes
\* a socket from the live set or closes one; no middleware and no handler
\* receives it; the error is reported once and the call returns.
C8_InvalidMessageDropped ==
    [][\A t \in Tasks :
          (tasks'[t] # tasks[t] /\ IsDropped(tasks'[t])) =>
              /\ state' = state
              /\ version' = version
              /\ store' = store
              /\ saveCalls' = saveCalls
              /\ hookCalls' = hookCalls
              /\ sent' = sent
              /\ connections' = connections
              /\ lastPongTimes' = lastPongTimes
              /\ closed' = closed
              /\ tasks'[t].mwIn = <<>>
              /\ tasks'[t].handlerIn = <<>>
              /\ tasks'[t].sets = 0
              /\ tasks'[t].reported = 1
              /\ tasks'[t].pc \in {"report", "done"}]_vars

\* C8 witness: on the manager of the tests, with a middleware registered and
\* the sender connected, a message with a non-numeric amount has been dropped.
C8_Witness ==
    \E t \in Tasks :
        /\ tasks[t].kind = "message"
        /\ tasks[t].raw = RawIncX
        /\ tasks[t].pc = "done"
        /\ tasks[t].ws \in connections
        /\ middlewares # <<>>
        /\ cfg.adapter
        /\ HookOn("onStateChange")

\* C9: handleMessage never propagates an exception to its caller: no call's
\* promise is ever rejected, whatever the payload and whatever the validator,
\* the middlewares and the handler do.
C9_NeverThrows == \A t \in Tasks : tasks[t].pc # "rejected"

\* What a middleware returns for a message (the application's transforms).
Transformed(mw, msg) ==
    IF msg.type # "increment" THEN msg
    ELSE IF mw = "double" THEN [msg EXCEPT !.amount = 2 * msg.amount]
    ELSE [msg EXCEPT !.amount = msg.amount + 1]

\* The middleware chain of one handleMessage call, as recorded: the first
\* middleware received the decoded message, middleware i + 1 received what
\* middleware i returned, the handler was called only after every registered
\* middleware returned and received what the last one returned; when
\* middleware i rejected, no later middleware and no handler was called, no
\* setState was made and the error was reported once.
MiddlewareChainOk(tk) ==
    /\ Len(tk.mwIn) >= 1 => tk.mwIn[1] = JSONparse(tk.raw).val
    /\ \A i \in 2..Len(tk.mwIn) :
          tk.mwIn[i] = Transformed(middlewares[i - 1], tk.mwIn[i - 1])
    /\ tk.handlerIn # <<>> =>
          /\ Len(tk.mwIn) = Len(middlewares)
          /\ tk.mwFailed = 0
          /\ tk.handlerIn[1] =
                IF tk.mwIn = <<>> THEN JSONparse(tk.raw).val
                ELSE Transformed(middlewares[Len(tk.mwIn)], tk.mwIn[Len(tk.mwIn)])
    /\ tk.mwFailed > 0 =>
          /\ Len(tk.mwIn) = tk.mwFailed
          /\ tk.handlerIn = <<>>
          /\ tk.sets = 0
          /\ tk.reported = 1
          /\ tk.pc \in {"report", "done"}

\* C10: middlewares run in registration order for every message, and a
\* failing middleware stops the message: no step of that call changes the
\* state or the version.
C10_MiddlewareOrder ==
    [][\A t \in Tasks :
          /\ tasks'[t].kind = "message" => MiddlewareChainOk(tasks'[t])
          /\ (tasks'[t] # tasks[t] /\ tasks'[t].mwFailed > 0) =>
                (state' = state /\ version' = version /\ store' = store)]_vars

\* C10 witness: with two middlewares registered, one message went through
\* both and reached the handler, and another was stopped by the first.
C10_Witness ==
    /\ Len(middlewares) = 2
    /\ \E t, u \in Tasks :
          /\ tasks[t].pc = "done"
          /\ Len(tasks[t].mwIn) = 2
          /\ tasks[t].sets = 1
          /\ tasks[t].raw = RawInc2
          /\ tasks[u].pc = "done"
          /\ tasks[u].mwFailed = 1
          /\ tasks[u].raw \in {RawInc1, RawInc2}

\* The registered handlers whose type is the type of msg.
Matching(msg) == {h \in 1..Len(MessageHandlers) : MessageHandlers[h].type = msg.type}

\* The call reached the handler lookup with a decoded object.
ReachedLookup(tk) ==
    /\ tk.kind = "message"
    /\ tk.pc \notin {"middleware", "idle"}
    /\ tk.mwFailed = 0
    /\ tk.msg.kind = "obj"

\* C11: for every inbound message at most one handler runs, at most once, and
\* it is the first registered handler of the message's type; when no handler
\* matches, none runs, the call makes no setState and reports no error.
C11_AtMostOneHandler ==
    \A t \in Tasks :
        LET tk == tasks[t]
        IN /\ Len(tk.handlerIn) <= 1
           /\ tk.handlerIn # <<>> =>
                 /\ tk.handler \in Matching(tk.handlerIn[1])
                 /\ \A j \in Matching(tk.handlerIn[1]) : tk.handler <= j
           /\ (ReachedLookup(tk) /\ Matching(tk.msg) = {}) =>
                 /\ tk.handlerIn = <<>>
                 /\ tk.reported = 0
                 /\ tk.sets = 0
                 /\ tk.pc = "done"

\* C11 witness: one message of a type with two registered handlers was
\* handled by the first one to completion, and one message of a type without
\* handler ended without running any.
C11_Witness ==
    \E t, u \in Tasks :
        /\ tasks[t].pc = "done" /\ tasks[t].handler = 1 /\ tasks[t].sets = 1
        /\ Cardinality(Matching(tasks[t].msg)) = 2
        /\ ReachedLookup(tasks[u]) /\ Matching(tasks[u].msg) = {}
        /\ tasks[u].pc = "done"

\* The call is running, or has run, the loop of broadcastState: a call of
\* broadcastState, or a setState past its `if (broadcast)`.
InBroadcast(tk) ==
    \/ tk.kind = "broadcast"
    \/ /\ tk.kind = "setState" /\ tk.broadcast
       /\ tk.pc = "broadcastReport" \/ (tk.pc = "done" /\ tk.frame.type # "")

C13_SetStateThenSaveThenBroadcast ==
    [][\A t \in Tasks :
          (tasks'[t] # tasks[t] /\ tasks'[t].kind = "setState") =>
              LET tk == tasks'[t]
              IN /\ tasks[t].kind = "idle" =>
                       /\ state' = tk.newState
                       /\ version' = IF cfg.enableVersioning THEN version + 1
                                     ELSE version
                 /\ (tk.pc = "saving" /\ tasks[t].pc # "saving") =>
                       tk.saveArg = Snapshot(tk.newState, version')
                 /\ (InBroadcast(tk) /\ ~InBroadcast(tasks[t])) =>
                       /\ tasks[t].pc \in {"syncRet", "onSync"}
                       /\ tk.frame = Frame("state_update", tk.newState)
                 /\ (tk.pc = "done" /\ tk.broadcast) =>
                       connections \subseteq tk.visited
                 /\ ~tk.broadcast => (tk.sends = 0 /\ sent' = sent)]_vars

\* The sendPing calls made for socket c, and the times at which c sent pong.
Pings(c) == {p \in timers.pings : p.ws = c}

PongTimes(c) ==
    {tasks[t].at : t \in {u \in Tasks : /\ tasks[u].kind = "message"
                                        /\ tasks[u].raw = RawPong
                                        /\ tasks[u].ws = c}}

\* The socket has never sent pong.
Silent(c) == PongTimes(c) = {}

\* The sockets of the heartbeat scenario are registered at construction time.
RegisteredAt(c) == Epoch

\* This step runs the timeout check of ping p / resumes it after the hook.
ChecksPing(p) == p \in timers.pings /\ p.pc = "timeout" /\ p \notin timers'.pings

ResumesCheck(p) ==
    p \in timers.pings /\ p.pc = "onPingTimeout" /\ p \notin timers'.pings

\* This step force-closes c: the heartbeat driver calls onPingTimeout for it
\* or requests its close.
ForceCloses(c) ==
    \E p \in Pings(c) :
        \/ ChecksPing(p) /\ [p EXCEPT !.pc = "passed"] \notin timers'.pings
        \/ ResumesCheck(p)

Responsive(c) ==
    \A p \in Pings(c) :
        \/ \E q \in PongTimes(c) : p.at <= q /\ q <= p.at + cfg.pingTimeoutMs
        \/ now < p.at + cfg.pingTimeoutMs

\* C15: a live socket that answers every ping with pong within pingTimeoutMs
\* is never force-closed by the heartbeat driver: onPingTimeout is not called
\* for it and its close is not requested.
C15_ResponsiveNeverClosed ==
    [][\A c \in connections :
          (Pings(c) # {} /\ Responsive(c)) => ~ForceCloses(c)]_vars

\* The timeout checks that found socket c late.
Timeouts(c) == {p \in Pings(c) : p.pc \in {"onPingTimeout", "closed"}}

\* C16: for a socket that never sends pong, with a heartbeat interval shorter
\* than pingTimeoutMs, onPingTimeout fires once and close is requested once:
\* never a second time.
C16_TimeoutFiresOnce ==
    \A c \in Conns :
        ( /\ Silent(c)
          /\ cfg.heartbeatIntervalMs > 0
          /\ cfg.heartbeatIntervalMs < cfg.pingTimeoutMs ) =>
            /\ Cardinality(Timeouts(c)) <= 1
            /\ Cardinality({p \in Pings(c) : p.pc = "closed"}) <= 1
            /\ HookOn("onPingTimeout") => hookCalls["onPingTimeout"] <= 1

\* C17: dispose() requests close once on every socket of the live set and on
\* no other socket, and leaves the live set and the liveness records empty.
C17_DisposeClosesLive ==
    [][timers'.disposed = timers.disposed + 1 =>
          /\ \A c \in Conns :
                closed'[c] = IF c \in connections THEN closed[c] + 1
                             ELSE closed[c]
          /\ connections' = {}
          /\ lastPongTimes' = EmptyMap]_vars

\* C17 witness: dispose() ran with one socket open: that socket has one close
\* request, the other none, and the registry is empty.
C17_Witness ==
    /\ timers.disposed = 1
    /\ \A t \in Tasks : tasks[t].reported = 0 /\ tasks[t].kind # "close"
    /\ \E c, d \in Conns : closed[c] = 1 /\ closed[d] = 0 /\ Len(sent[c]) > 0
    /\ connections = {}
    /\ lastPongTimes = EmptyMap

\* C18: after dispose() no timer started by the manager has an effect: no
\* frame (ping) is sent, no adapter save is started, onPingTimeout is not
\* called and no close is requested.
C18_NoTimerAfterDispose ==
    [][(timers.disposed > 0 /\ timers'.disposed = timers.disposed) =>
          /\ sent' = sent
          /\ saveCalls' = saveCalls
          /\ hookCalls'["onPingTimeout"] = hookCalls["onPingTimeout"]
          /\ closed' = closed]_vars

\* The positions init() passes through: adapter.init() is called once (by
\* the constructor), then adapter.load() once, or the catch block runs.
StartupOrder ==
    { <<"adapterInit", "loading">>, <<"adapterInit", "reporting">>,
      <<"loading", "done">>, <<"loading", "reporting">>,
      <<"reporting", "done">> }

\* C19: with an adapter, startup calls adapter.init() once and then
\* adapter.load() once; when load returns { state s, version v }, startup
\* completes with getState() = s and, with versioning, getVersion() = v.
C19_StartupLoadsSnapshot ==
    [][/\ initPc' # initPc => << initPc, initPc' >> \in StartupOrder
       /\ cfg.adapter <=> initPc # "done" \/ baseline.outcome # "none"
       /\ (initPc # "done" /\ initPc' = "done" /\ baseline'.outcome = "data") =>
             /\ initPc = "loading"
             /\ state' = store.state
             /\ cfg.enableVersioning => version' = store.version]_vars

\* C19 witness: startup has completed by loading { state 5, version 2 } after
\* a setState had been made while it was running: the loaded snapshot is the
\* current state and version.
C19_Witness ==
    /\ cfg.adapter /\ cfg.enableVersioning
    /\ initPc = "done" /\ baseline.outcome = "data"
    /\ baseline.sets > 0
    /\ store = Snapshot(5, 2)
    /\ state = 5 /\ version = 2

\* C20: when adapter.init() or adapter.load() fails at startup, or load
\* returns data without state or version, startup completes with the error
\* reported, the state set to the configured default state and the version
\* 0 with versioning and -1 without.
C20_StartupFailureFallsBack ==
    [][(initPc # "done" /\ initPc' = "done"
          /\ baseline'.outcome \in {"invalid", "failed"}) =>
             /\ initReported' >= 1
             /\ state' = cfg.defaultState
             /\ version' = IF cfg.enableVersioning THEN 0 ELSE -1]_vars

\* C21: with an adapter and config.initialState provided, when adapter.load()
\* fails at startup, startup completes with the state equal to
\* config.initialState.
C21_LoadFailureKeepsInitialState ==
    [][(initPc # "done" /\ initPc' = "done" /\ baseline'.threw = "load") =>
          state' = cfg.initialState]_vars

\* The handleMessage calls whose handler has called setState and whose sync()
\* has called adapter.save.
Saved(t) ==
    /\ tasks[t].kind = "message"
    /\ tasks[t].sets > 0
    /\ tasks[t].pc \in {"saving", "onSync", "syncRet", "done"}

\* C22: with an adapter, each handler setState call makes exactly one
\* adapter.save call, whose arguments are the state and version that this
\* setState assigned; once the save has resolved, onSync (when configured) is
\* called once, with the same pair.
C22_MutationSavedThenSynced ==
    cfg.adapter =>
        /\ saveCalls = Cardinality({t \in Tasks : Saved(t)})
        /\ hookCalls["onSync"] =
              Cardinality({t \in Tasks : tasks[t].onSyncArg # NoSnapshot})
        /\ \A t \in Tasks :
              Saved(t) =>
                 /\ tasks[t].saveArg = tasks[t].post
                 /\ tasks[t].onSyncArg \in {NoSnapshot, tasks[t].saveArg}
                 /\ (/\ tasks[t].pc # "saving"
                     /\ tasks[t].reported = 0
                     /\ HookOn("onSync")) => tasks[t].onSyncArg # NoSnapshot

C24_SyncTickAlwaysSaves ==
    [][/\ (cfg.adapter /\ cfg.syncIntervalMs > 0 /\ timers.disposed = 0) =>
             /\ timers.syncInterval # Off
             /\ timers.syncInterval <= now + cfg.syncIntervalMs
       /\ (/\ cfg.adapter
           /\ timers'.syncInterval # timers.syncInterval
           /\ timers'.disposed = timers.disposed) =>
             /\ saveCalls' = saveCalls + 1
             /\ state' = state /\ version' = version
             /\ \E t \in Tasks :
                   /\ tasks[t].kind = "idle"
                   /\ tasks'[t].kind = "syncTick"
                   /\ tasks'[t].pc = "saving"
                   /\ tasks'[t].saveArg = Snapshot(state, version)]_vars

\* C24 witness: no message was received and the state never changed; a first
\* tick saved the snapshot, and the next tick has called adapter.save again
\* with the pair the storage already holds.
C24_Witness ==
    /\ cfg.adapter /\ cfg.syncIntervalMs > 0 /\ timers.disposed = 0
    /\ tasks[1].kind = "syncTick" /\ tasks[1].saveResult = "resolved"
    /\ tasks[2].kind = "syncTick" /\ tasks[2].pc = "saving"
    /\ tasks[2].saveArg = store
    /\ store = Snapshot(state, version)
    /\ saveCalls = 2
    /\ timers.syncInterval # Off

\* C25: a handleMessage call whose payload is the text pong sets the sender's
\* liveness record to the current time (and no other record), calls onPong
\* once when configured, and ends when the hook returns: no middleware and no
\* handler receives anything, nothing is reported (the payload never reaches
\* JSON.parse or the validator), nothing is saved, and state, version and
\* the stored snapshot are unchanged by both steps of the call.
C25_PongOnlyUpdatesLiveness ==
    [][\A t \in Tasks :
          /\ (tasks[t].kind = "idle" /\ tasks'[t].raw = RawPong) =>
                /\ lastPongTimes' = MapSet(lastPongTimes, tasks'[t].ws, now)
                /\ hookCalls' =
                      IF HookOn("onPong")
                      THEN [hookCalls EXCEPT !["onPong"] = @ + 1]
                      ELSE hookCalls
                /\ tasks'[t].pc = IF HookOn("onPong") THEN "pongHook" ELSE "done"
                /\ tasks'[t].mwIn = <<>> /\ tasks'[t].handlerIn = <<>>
                /\ tasks'[t].reported = 0 /\ tasks'[t].sets = 0
                /\ state' = state /\ version' = version
                /\ store' = store /\ saveCalls' = saveCalls
          /\ (tasks[t].raw = RawPong /\ tasks'[t] # tasks[t]) =>
                /\ tasks[t].pc = "pongHook"
                /\ tasks'[t] = [tasks[t] EXCEPT !.pc = "done"]
                /\ UNCHANGED << lastPongTimes, hookCalls, state, version,
                                store, saveCalls >>]_vars

\* C25 witness: on a manager with validator, adapter, the onPong hook and a
\* middleware registered, a pong sent at a later time than the construction
\* has been handled: the record of the sender holds that time, onPong was
\* called once, and nothing else happened.
C25_Witness ==
    /\ cfg.validateMessage /\ cfg.adapter /\ HookOn("onPong")
    /\ middlewares # <<>>
    /\ now > Epoch
    /\ tasks[1].raw = RawPong /\ tasks[1].pc = "done" /\ tasks[1].ws = "ws1"
    /\ tasks[2].kind = "idle"
    /\ lastPongTimes = MapSet(EmptyMap, "ws1", now)
    /\ hookCalls["onPong"] = 1
    /\ saveCalls = 0 /\ state = InitialState /\ version = 0

\* C26: every step that calls adapter.save makes one call, and its arguments
\* are the state and the version the manager holds at that moment, both read
\* together: a save never pairs a state with a version from another moment.
C26_SavePairIsCurrent ==
    [][/\ saveCalls' \in {saveCalls, saveCalls + 1}
       /\ saveCalls' = saveCalls + 1 =>
             \E t \in Tasks :
                /\ tasks[t].pc # "saving" /\ tasks'[t].pc = "saving"
                /\ tasks'[t].saveArg = Snapshot(state', version')
                /\ \A u \in Tasks \ {t} : tasks'[u] = tasks[u]
       /\ \A t \in Tasks :
             (tasks[t].pc # "saving" /\ tasks'[t].pc = "saving") =>
                saveCalls' = saveCalls + 1]_vars

\* C26 witness: with versioning, a handler mutation was saved as (1, 1) and
\* a later setState(7) has called save with (7, 2): each state with the
\* version of its own mutation.
C26_Witness ==
    /\ cfg.adapter /\ cfg.enableVersioning
    /\ initPc = "done" /\ baseline.version = 0 /\ baseline.sets = 0
    /\ tasks[1].kind = "message" /\ tasks[1].saveResult = "resolved"
    /\ tasks[1].saveArg = Snapshot(1, 1)
    /\ tasks[2].kind = "setState" /\ tasks[2].pc = "saving"
    /\ tasks[2].saveArg = Snapshot(7, 2)
    /\ saveCalls = 2

\* C27: for each adapter, once a save(state, version) made through an
\* initialised adapter has resolved, the next load() (by the same instance
\* or by a fresh one over the same storage, with or without an init() in
\* between) resolves with an equal state and the same version.
C27_SaveLoadRoundTrip ==
    [][(persist'.last = "load" /\ persist'.calls = persist.calls + 1
          /\ persist.saved # NeverSaved) =>
             persist'.result = [ok |-> TRUE, val |-> persist.saved]]_vars

\* C27 as amended: the same, provided that the saved state is one the
\* validateState of a FileSyncAdapter accepts (when one is configured).
C27_ValidSaveLoadRoundTrip ==
    [][(persist'.last = "load" /\ persist'.calls = persist.calls + 1
          /\ persist.saved # NeverSaved
          /\ (persist.validateState => ValidState(persist.saved))) =>
             persist'.result = [ok |-> TRUE, val |-> persist.saved]]_vars

\* C27 witness: a FileSyncAdapter with a validator was initialised, saved
\* ({ counter: 5 }, version 2) and loaded: the load returned the saved pair.
C27_Witness ==
    /\ persist.kind = "FileSyncAdapter" /\ persist.validateState
    /\ persist.inited
    /\ persist.saved = Data(5, 2)
    /\ persist.last = "load"
    /\ persist.result = [ok |-> TRUE, val |-> Data(5, 2)]

\* The storage holds a well-formed snapshot.
Intact(p) ==
    IF IsFile(p.kind)
    THEN p.exists /\ ParseDocument(p.text).ok
                  /\ ParseDocument(p.text).val.kind = "snapshot"
    ELSE p.table /\ p.row /\ ParseState(p.data_json).ok

\* C28: load() never rejects, and when the storage does not hold a
\* well-formed snapshot (file, table or row missing, empty or corrupt
\* contents) it resolves with the default snapshot (the initial state,
\* version 0).
C28_LoadNeverFails ==
    [][(persist'.last = "load" /\ persist'.calls = persist.calls + 1) =>
          /\ persist'.result.ok
          /\ ~Intact(persist) => persist'.result.val = InitialData(persist)]_vars

C30_NoReconnectAfterStop ==
    [][(client.autoReconnect /\ client.stopped) =>
          /\ client'.onReconnects = client.onReconnects
          /\ client'.scheduled = {}
          /\ client'.timerSeq = client.timerSeq
          /\ Len(client'.sockets) = Len(client.sockets)]_vars

\* C31: on a client manager with autoReconnect and maxReconnectAttempts = M,
\* the reconnect attempts made since the last successful open (or since the
\* construction) are at most M and onReconnect was called for them with the
\* numbers 1, 2, ... in order; and a successful open leaves the attempt count
\* at 0.
C31_AtMostMaxAttempts ==
    /\ [](client.autoReconnect /\ client.maxReconnectAttempts # NoMax =>
            /\ Len(client.attemptNumbers) <= client.maxReconnectAttempts
            /\ \A k \in DOMAIN client.attemptNumbers : client.attemptNumbers[k] = k)
    /\ [][\A i \in DOMAIN client.sockets :
            (client.sockets[i] = "CONNECTING" /\ client'.sockets[i] = "OPEN") =>
                client'.reconnectAttempts = 0]_vars

\* C32: a sendMessage call passes a text to send only when the current
\* socket is OPEN and the configured validator accepted the message: then
\* exactly one text, the JSON of the validated message (of the message itself
\* without a validator), goes to the current socket, the validator having run
\* once.  Otherwise the call sends nothing, and no other step of the manager
\* sends anything (nothing was queued).  (Everything sendMessage does after
\* testing the socket lies inside its try block, so no call throws.)
C32_SendOnlyWhenOpen ==
    [][IF client'.sends = client.sends + 1
       THEN LET msg == client'.lastMsg
                socket == Len(client.sockets)
                open == client.sockets[socket] = "OPEN"
                checked == client.validateOutgoingMessage
                accepted == ~checked \/ msg.type = "test_outgoing"
                expected == IF checked THEN [msg EXCEPT !.extra = FALSE] ELSE msg
            IN IF open /\ accepted
               THEN /\ client'.sentData =
                          Append(client.sentData,
                                 [socket |-> socket, data |-> Stringify(expected)])
                    /\ client'.validations =
                          client.validations + (IF checked THEN 1 ELSE 0)
               ELSE client'.sentData = client.sentData
       ELSE client'.sentData = client.sentData]_vars

\* A validated message was sent on an open socket: the message had a key the
\* schema strips, and the text sent is that of the stripped message.
C32_Witness ==
    /\ client.validateOutgoingMessage
    /\ client.lastMsg.extra
    /\ client.validations = 1
    /\ Len(client.sentData) = 1
    /\ client.sentData[1].data = Stringify([client.lastMsg EXCEPT !.extra = FALSE])

\* C33: with the onStateChange hook configured, every setState call (of a
\* handler or public) that leaves the state structurally different from the
\* state held before the call (before the handler changed the object, when it
\* changed it in place) calls onStateChange exactly once, with that previous
\* state and the new one; a call that leaves the state equal calls no hook.
C33_StateChangeFiresOnce ==
    [][\A t \in Tasks :
          (HookOn("onStateChange") /\ tasks'[t].sets = tasks[t].sets + 1) =>
              IF state' # state
              THEN /\ hookCalls'["onStateChange"] = hookCalls["onStateChange"] + 1
                   /\ tasks'[t].onStateChangeArg = [old |-> state, new |-> state']
              ELSE hookCalls'["onStateChange"] = hookCalls["onStateChange"]]_vars

\* C34: the first frame the manager passes to a socket is its initial_state
\* frame: no state_update and no ping goes to a socket before it.
C34_InitialStateFirst ==
    \A c \in Conns : sent[c] # <<>> => sent[c][1].type = "initial_state"

\* C35: the sockets that have a liveness record are exactly the registered
\* sockets.
C35_LivenessRecordsMatchLiveSet == DOMAIN lastPongTimes = connections

\* C36: with an adapter, no adapter.save is called while init() is still
\* waiting for adapter.init() or adapter.load(), so the stored snapshot of an
\* earlier run is not replaced before it has been loaded.
C36_NoSaveBeforeLoad ==
    [][saveCalls' # saveCalls => initPc \notin {"adapterInit", "loading"}]_vars

\* C37: with an adapter, once init() and every call have completed and every
\* adapter.save has resolved, the stored snapshot is the manager's (state,
\* version).
C37_StoreCatchesUp ==
    (/\ cfg.adapter
     /\ initPc = "done"
     /\ saveCalls > 0
     /\ \A t \in Tasks : tasks[t].pc \in {"idle", "done"}
     /\ \A t \in Tasks : tasks[t].saveResult # "rejected")
        => store = Snapshot(state, version)

\* C38: a ping-timeout check that runs for a socket which is no longer
\* registered has no effect: it does not call onPingTimeout and requests no
\* close of that socket.
C38_StaleTimeoutHasNoEffect ==
    [][\A p \in timers.pings :
          (p.pc = "timeout" /\ p \notin timers'.pings /\ p.ws \notin connections) =>
              /\ hookCalls'["onPingTimeout"] = hookCalls["onPingTimeout"]
              /\ closed'[p.ws] = closed[p.ws]
              /\ \A q \in timers'.pings \ timers.pings : q.pc = "passed"]_vars

\* C39: the socket that was current when disconnect() was called, and the
\* socket created by a reconnect timer that was pending at that call, are
\* never open afterwards; only a reconnect scheduled by a later close event
\* may open a connection.
C39_DisconnectPreventsOpen ==
    \A i \in client.droppedSockets : client.sockets[i] # "OPEN"

====
